---- MODULE Spec2Model ----
(***************************************************************************)
(* Model of fp_app: the chart source worker (src/src/chart.rs) and the     *)
(* viewport controller that drives it (src/src/app.rs).                    *)
(*                                                                         *)
(* Spec    : chart::Source used through its public API (read_image,        *)
(*           get_next_reply, drop) together with its worker thread.        *)
(* FairSpec: Spec with the fairness a running thread has.                  *)
(* AppSpec : the viewer: frames of App::update, the Sources they open and  *)
(*           drop, and the worker thread of the open Source.               *)
(***************************************************************************)
EXTENDS Integers, Sequences, FiniteSets, TLC

VARIABLES
  reqQ,        \* chart.rs: channel sender -> thread_receiver (Request values)
  replyQ,      \* chart.rs: channel thread_sender -> receiver (Reply values)
  wpc,         \* position of the worker thread in the closure of Source::_open
  request,     \* worker local `request` (Option; None once the match has moved it)
  read,        \* worker local `read`
  part,        \* worker local `part` while data.read runs
  repaintReq,  \* egui context: a repaint has been requested and not yet served
  srcState,    \* the Source value: "none", "open", "joining" (in drop), "dropped"
  lastReply,   \* what the last direct get_next_reply call returned
  app,         \* app.rs: struct App with the ChartInfo of Chart::Ready
  outbox,      \* read_image calls of the running frame not yet executed
  cont,        \* the input of the frame that is blocked in Source::drop
  apt,         \* nasr.rs: the APTSource (App::nasr_reader) and its worker thread
  hist         \* history record (not program state), see HistInit

wVars ==
  <<reqQ, replyQ, wpc, request, read, part, repaintReq, srcState>>

appVars ==
  <<app, outbox, cont, apt>>

vars ==
  <<wVars, lastReply, appVars, hist>>

----------------------------------------------------------------------------
(* Bounds *)

\* read_image calls a client of Source makes in Spec
MaxReads ==
  3

\* distinct image parts a client of Source submits in Spec
NumParts ==
  2

\* frames that carry user input in AppSpec
MaxUserEvents ==
  2

\* a frame starts only while fewer requests than this wait in the queue
MaxQueue ==
  2

----------------------------------------------------------------------------
(* Values *)

None ==
  <<>>

Some(v) ==
  <<v>>

\* util::Rect { pos, size }
Rect(x, y, w, h) ==
  [pos |-> <<x, y>>, size |-> <<w, h>>]

\* chart::ImagePart::new; zoom is an f32, carried as an exact fraction (see
\* Q below)
ImagePart(rect, zoom, dark) ==
  [rect |-> rect, zoom |-> zoom, dark |-> dark]

\* The image parts a client of Source submits in Spec.
Parts ==
  { ImagePart(Rect(i, 0, 4, 4), <<1, 1>>, FALSE) : i \in 1..NumParts }

\* chart::Request
ReqRead(p) ==
  [type |-> "Read", part |-> Some(p)]

ReqExit ==
  [type |-> "Exit", part |-> None]

\* chart::Reply
Reply(kind, p) ==
  [kind |-> kind, part |-> p]

NoLast ==
  Reply("None", None)

\* What the histories record:
\*   drainTaken   Read parts taken since the last blocking recv
\*   drainSent    replies sent since the last blocking recv
\*   unrepainted  replies sent since the last request_repaint of the worker
\*   nReads       read_image calls made through the Source API
\*   nExits       Exit messages sent
\*   exitSeen     the worker has taken Exit from its queue
\*   afterExit    replies sent while an Exit message was queued or taken
\*   afterSeen    replies sent after the worker took Exit
\*   nSent        replies sent
\*   erred        a GdalError reply has been sent
\*   atRecv       the Read parts queued at the last blocking recv, up to an Exit
\*   exitAtRecv   an Exit was queued at the last blocking recv
\*   lateDecode   data.read calls started after Source::drop returned
\*   log          every read_image call and every reply is recorded (ReadsSpec)
\*   submitted    the parts of the read_image calls, in the order made
\*   sent         the replies sent, in the order sent
\*   client       the Source is driven through its API by the client of Spec;
\*                the history of the worker's traffic is that of this Source
\* The counters stop at MaxReads + 1, which Spec never reaches.
HistInit ==
  [drainTaken |-> <<>>, drainSent |-> <<>>, unrepainted |-> 0, nReads |-> 0,
   nExits |-> 0, exitSeen |-> FALSE, afterExit |-> 0, afterSeen |-> 0,
   nSent |-> 0, erred |-> FALSE, atRecv |-> <<>>, exitAtRecv |-> FALSE,
   lateDecode |-> 0, log |-> FALSE, submitted |-> <<>>, sent |-> <<>>,
   client |-> TRUE]

\* The history of a Source opened by the viewer (AppSpec).
HistApp ==
  [HistInit EXCEPT !.client = FALSE]

Inc(n) ==
  IF n <= MaxReads THEN n + 1 ELSE n

RECURSIVE ReadsUpToExit(_)
ReadsUpToExit(q) ==
  IF q = <<>> \/ Head(q).type = "Exit"
    THEN <<>>
    ELSE <<Head(q).part[1]>> \o ReadsUpToExit(Tail(q))

HasExit(q) ==
  \E i \in 1..Len(q) : q[i].type = "Exit"

----------------------------------------------------------------------------
(* The worker thread: the closure spawned by Source::_open, chart.rs:201-267 *)

\* thread_sender.send(reply).unwrap(): the history after a reply is sent
HistSend(h, r) ==
  IF ~h.client
    THEN h
    ELSE [h EXCEPT !.drainSent = Append(@, r),
                   !.unrepainted = Inc(@),
                   !.nSent = Inc(@),
                   !.erred = @ \/ r.kind = "GdalError",
                   !.afterExit = IF h.nExits > 0 THEN Inc(@) ELSE @,
                   !.afterSeen = IF h.exitSeen THEN Inc(@) ELSE @,
                   !.sent = IF h.log THEN Append(@, r) ELSE @]

\* the history after a Read has been taken from the queue
HistTake(h, p) ==
  IF ~h.client THEN h ELSE [h EXCEPT !.drainTaken = Append(@, p)]

\* the history after the blocking receive returned with q queued
HistRecv(h, q) ==
  IF ~h.client
    THEN h
    ELSE [h EXCEPT !.drainTaken = <<>>, !.drainSent = <<>>,
                   !.atRecv = ReadsUpToExit(q),
                   !.exitAtRecv = HasExit(q)]

\* let mut request = thread_receiver.recv().unwrap(); let mut read = None;
\* The blocking receive: enabled only when a request is queued.
WRecv ==
  /\ wpc = "recv"
  /\ reqQ # <<>>
  /\ request' = Some(Head(reqQ))
  /\ reqQ' = Tail(reqQ)
  /\ read' = None
  /\ wpc' = "match"
  /\ hist' = HistRecv(hist, reqQ)
  /\ UNCHANGED <<replyQ, part, repaintReq, srcState>>

\* Mutant of WMatchRead: the superseded Read is dropped without a Canceled reply.
WMatchRead_Silent ==
  /\ wpc = "match"
  /\ request[1].type = "Read"
  /\ replyQ' = replyQ
  /\ hist' = HistTake(hist, request[1].part[1])
  /\ read' = request[1].part
  /\ request' = None
  /\ wpc' = "try"
  /\ UNCHANGED <<reqQ, part, repaintReq, srcState>>

\* Mutant of WMatchRead: the Canceled reply carries the part of the Read that
\* has just been taken, not the part of the Read it supersedes.
WMatchRead_CancelsNew ==
  /\ wpc = "match"
  /\ request[1].type = "Read"
  /\ IF read # None
       THEN /\ replyQ' = Append(replyQ, Reply("Canceled", request[1].part))
            /\ hist' = HistTake(HistSend(hist, Reply("Canceled", request[1].part)),
                                request[1].part[1])
       ELSE /\ replyQ' = replyQ
            /\ hist' = HistTake(hist, request[1].part[1])
  /\ read' = request[1].part
  /\ request' = None
  /\ wpc' = "try"
  /\ UNCHANGED <<reqQ, part, repaintReq, srcState>>

\* Request::Read(part) => { if let Some(canceled) = read.take() { send Canceled }
\*                          read = Some(part) }
WMatchRead ==
  /\ wpc = "match"
  /\ request[1].type = "Read"
  /\ IF read # None
       THEN /\ replyQ' = Append(replyQ, Reply("Canceled", read))
            /\ hist' = HistTake(HistSend(hist, Reply("Canceled", read)),
                                request[1].part[1])
       ELSE /\ replyQ' = replyQ
            /\ hist' = HistTake(hist, request[1].part[1])
  /\ read' = request[1].part
  /\ request' = None
  /\ wpc' = "try"
  /\ UNCHANGED <<reqQ, part, repaintReq, srcState>>

\* Mutant of WMatchExit: Exit is skipped like an empty request.
WMatchExit_Ignored ==
  /\ wpc = "match"
  /\ request[1].type = "Exit"
  /\ wpc' = "try"
  /\ request' = None
  /\ UNCHANGED <<reqQ, replyQ, read, part, repaintReq, srcState, hist>>

\* Request::Exit => return
WMatchExit ==
  /\ wpc = "match"
  /\ request[1].type = "Exit"
  /\ wpc' = "done"
  /\ request' = None
  /\ hist' = [hist EXCEPT !.exitSeen = TRUE]
  /\ UNCHANGED <<reqQ, replyQ, read, part, repaintReq, srcState>>

\* Mutant of WTryRecv: the inner loop breaks without looking at the queue.
WTryRecv_NoDrain ==
  /\ wpc = "try"
  /\ wpc' = "taken"
  /\ UNCHANGED <<request, reqQ, replyQ, read, part, repaintReq, srcState, hist>>

\* match thread_receiver.try_recv() { Ok(rqst) => request = rqst, Err(_) => break }
WTryRecv ==
  /\ wpc = "try"
  /\ IF reqQ # <<>>
       THEN /\ request' = Some(Head(reqQ))
            /\ reqQ' = Tail(reqQ)
            /\ wpc' = "match"
       ELSE /\ UNCHANGED <<request, reqQ>>
            /\ wpc' = "taken"
  /\ UNCHANGED <<replyQ, read, part, repaintReq, srcState, hist>>

\* if let Some(part) = read.take() { let src_rect = ...; data.read(src_rect, ...)
\* The decode starts here and ends in WReadDone.
WReadStart ==
  /\ wpc = "taken"
  /\ IF read # None
       THEN /\ part' = read
            /\ wpc' = "reading"
            /\ hist' = [hist EXCEPT !.lateDecode = IF srcState = "dropped"
                                                     THEN Inc(@) ELSE @]
       ELSE /\ part' = part
            /\ wpc' = "recv"
            /\ hist' = hist
  /\ read' = None
  /\ UNCHANGED <<reqQ, replyQ, request, repaintReq, srcState>>

\* Mutant of WReadDone: a decode gives way to a request that arrived meanwhile.
WReadDone_Preempt ==
  /\ wpc = "reading"
  /\ \E kind \in IF reqQ # <<>> THEN {"Canceled"} ELSE {"Image", "GdalError"} :
       /\ replyQ' = Append(replyQ, Reply(kind, part))
       /\ hist' = HistSend(hist, Reply(kind, part))
  /\ wpc' = "repaint"
  /\ UNCHANGED <<reqQ, request, read, part, repaintReq, srcState>>

\* Mutant of WReadDone: a failed decode ends the thread.
WReadDone_ErrReturns ==
  /\ wpc = "reading"
  /\ \E kind \in {"Image", "GdalError"} :
       /\ replyQ' = Append(replyQ, Reply(kind, part))
       /\ hist' = HistSend(hist, Reply(kind, part))
       /\ wpc' = IF kind = "GdalError" THEN "done" ELSE "repaint"
  /\ UNCHANGED <<reqQ, request, read, part, repaintReq, srcState>>

\* match data.read(..) { Ok(gdal_image) => send Reply::Image(part, image),
\*                       Err(err) => send Reply::GdalError(part, err) }
WReadDone ==
  /\ wpc = "reading"
  /\ \E kind \in {"Image", "GdalError"} :
       /\ replyQ' = Append(replyQ, Reply(kind, part))
       /\ hist' = HistSend(hist, Reply(kind, part))
  /\ wpc' = "repaint"
  /\ UNCHANGED <<reqQ, request, read, part, repaintReq, srcState>>

\* Mutant of WRepaint: the repaint request is left out.
WRepaint_Missing ==
  /\ wpc = "repaint"
  /\ part' = None
  /\ wpc' = "recv"
  /\ UNCHANGED <<reqQ, replyQ, request, read, repaintReq, srcState, hist>>

\* ctx.request_repaint(), then back to the top of the outer loop
WRepaint ==
  /\ wpc = "repaint"
  /\ repaintReq' = TRUE
  /\ part' = None
  /\ wpc' = "recv"
  /\ hist' = [hist EXCEPT !.unrepainted = 0]
  /\ UNCHANGED <<reqQ, replyQ, request, read, srcState>>

Worker ==
  \/ WRecv
  \/ WMatchRead
  \/ WMatchExit
  \/ WTryRecv
  \/ WReadStart
  \/ WReadDone
  \/ WRepaint

----------------------------------------------------------------------------
(* The viewport controller: struct App, app.rs.  The methods of App are     *)
(* operators from App values to App values; a frame (App::update) is their  *)
(* composition in the order of the code.  f32 values (zoom, scroll offsets, *)
(* pointer positions) are carried as exact fractions <<n, d>> in lowest     *)
(* terms with d > 0; the integer fields of util::Rect are integers.         *)

\* Fractions.  Q(n, d) is n / d in lowest terms, for d > 0.
Abs(n) ==
  IF n < 0 THEN -n ELSE n

RECURSIVE GCD(_, _)
GCD(m, n) ==
  IF n = 0 THEN m ELSE GCD(n, m % n)

Q(n, d) ==
  LET g == GCD(Abs(n), d) IN <<n \div g, d \div g>>

QInt(n) ==
  <<n, 1>>

QOne ==
  QInt(1)

QZero ==
  QInt(0)

QAdd(x, y) ==
  Q(x[1] * y[2] + y[1] * x[2], x[2] * y[2])

QSub(x, y) ==
  Q(x[1] * y[2] - y[1] * x[2], x[2] * y[2])

QMul(x, y) ==
  Q(x[1] * y[1], x[2] * y[2])

\* x / y for y > 0
QDiv(x, y) ==
  Q(x[1] * y[2], x[2] * y[1])

QLess(x, y) ==
  x[1] * y[2] < y[1] * x[2]

\* f32::max, f32::min
QMax(x, y) ==
  IF QLess(x, y) THEN y ELSE x

QMin(x, y) ==
  IF QLess(y, x) THEN y ELSE x

\* f32::floor and f32::trunc, as integers
QFloor(x) ==
  x[1] \div x[2]

QTrunc(x) ==
  IF x[1] >= 0 THEN x[1] \div x[2] ELSE -((-x[1]) \div x[2])

IsInt(x) ==
  x[2] = 1

\* emath::Pos2 / Vec2 with integer components
QPos(x, y) ==
  <<QInt(x), QInt(y)>>

\* The chart the file dialog opens: px_size of its Transform.
ChartSize ==
  <<8, 8>>

\* Window sizes the user can give the viewer (the area left for the side
\* panel and the chart).
WinSizes ==
  {<<6, 4>>, <<8, 4>>}

\* Measured width of the side panel (side_panel() returns it once shown).
PanelWidth ==
  1

\* Scroll input of one frame (drag or wheel), in pixels.
ScrollDeltas ==
  {QPos(1, 0), QPos(0, 1), QPos(-1, 0)}

\* Zoom input of one frame: events.zoom_mod and the pointer position relative
\* to the viewport origin (zoom_pos - response.inner_rect.min).
ZoomMods ==
  {Q(1, 2), Q(2, 1)}

ZoomAnchors ==
  {QPos(0, 0), QPos(2, 2)}

\* const MIN_ZOOM: f32 = 1.0 / 8.0
MIN_ZOOM ==
  <<1, 8>>

Max(x, y) ==
  IF x >= y THEN x ELSE y

Min(x, y) ==
  IF x <= y THEN x ELSE y

\* Fields of App and of its ChartInfo, plus what one frame produces (out,
\* repaint, opened, replies) and history fields (h_*).
\*   win, sa_offset   state kept by egui: window size, ScrollArea offset
\*   out              read_image calls made by the running frame
\*   repaint          ctx.request_repaint() was called by the running frame
\*   opened           the running frame opened a new Source
\*   nEvents          number of frames that carried user input
\*   h_assert         the assertion of ImagePart::new has failed
\*   h_failed         parts whose GdalError reply was handled since the last
\*                    frame with user input, recorded when h_errors is set
\*   h_night0         night_mode when the last frame began
\*   h_input, h_woken the last frame carried user input / began with a repaint
\*                    request pending
\*   h_panel0         side_panel when the last frame began
\*   h_dlg            what the file dialog and the chart selection dialog
\*                    returned in the last frame (done: a frame has ended)
\*   h_frame          what the central panel of the last frame saw and sent
NoFrame ==
  [ready |-> FALSE, image |-> None, rect |-> Rect(0, 0, 0, 0), zoom0 |-> QZero,
   zoom |-> QZero, min_zoom |-> QZero, dark |-> FALSE, toggled |-> FALSE,
   seeded |-> FALSE, taken |-> None, event |-> "none", sent |-> <<>>,
   pos0 |-> <<0, 0>>, panel0 |-> TRUE]

NoDlg ==
  [done |-> FALSE, file |-> "visible", select |-> "none", open_ok |-> TRUE,
   err_close |-> FALSE]

ForgetFrame(a) ==
  [a EXCEPT !.h_frame = NoFrame, !.h_input = FALSE, !.h_woken = FALSE,
            !.h_panel0 = TRUE, !.h_dlg = NoDlg]

\* touch.rs: const LONG_PRESS_DUR, in ticks of the clock of TouchSpec
LONG_PRESS_DUR ==
  2

\* LongPressTracker::new and the state of its thread: sender is the channel
\* (the requests sent and not yet received), pc the position of the thread,
\* request and time its locals, state "open" until the tracker is dropped.
\* A Refresh carries, as `n`, the number of its send call (history).
TrackerNew ==
  [ids |-> {}, info |-> None, pos |-> None, sender |-> <<>>,
   pc |-> "recv", request |-> None, time |-> None, state |-> "open"]

\* LongPressTracker::remove_info
remove_info(lp) ==
  IF lp.info # None
    THEN [lp EXCEPT !.info = None, !.sender = Append(@, [type |-> "Cancel"])]
    ELSE lp

\* Mutant of set: a second touch does not clear the pending one.
set_KeepsOnSecond(lp, id, phase, pos, now, n) ==
  CASE phase = "Start" ->
         LET a == IF lp.ids = {}
                    THEN [lp EXCEPT !.info = Some([time |-> now, pos |-> pos]),
                                    !.sender = Append(@, [type |-> "Refresh",
                                                          t |-> now, n |-> n])]
                    ELSE lp
         IN [a EXCEPT !.ids = @ \cup {id}]
    [] phase = "Move" -> remove_info(lp)
    [] OTHER -> remove_info([lp EXCEPT !.ids = @ \ {id}])

\* LongPressTracker::set; now is what SystemTime::now() returns
set(lp, id, phase, pos, now, n) ==
  CASE phase = "Start" ->
         LET a == IF lp.ids = {}
                    THEN [lp EXCEPT !.info = Some([time |-> now, pos |-> pos]),
                                    !.sender = Append(@, [type |-> "Refresh",
                                                          t |-> now, n |-> n])]
                    ELSE remove_info(lp)
         IN [a EXCEPT !.ids = @ \cup {id}]
    [] phase = "Move" -> remove_info(lp)
    [] OTHER -> remove_info([lp EXCEPT !.ids = @ \ {id}])

\* LongPressTracker::update; the clock does not run backwards, so
\* duration_since returns Ok
update(lp, now) ==
  IF lp.info # None /\ now - lp.info[1].time >= LONG_PRESS_DUR
    THEN [lp EXCEPT !.pos = Some(lp.info[1].pos), !.info = None]
    ELSE lp

\* touch.rs: check_time
check_time(time, now) ==
  time # None /\ now - time[1].t >= LONG_PRESS_DUR

\* config.rs: the keys of the configuration items
ConfigKeys ==
  {"night_mode", "asset_path"}

\* serde_json::json!({}): no item under any key
NoItems ==
  [k \in ConfigKeys |-> None]

\* Items::load_items: the object read from the file, or the empty object
\* when the file is missing, is not JSON or is not an object.  A file is
\* [object |-> whether it holds a JSON object, items |-> that object].
load_items(file) ==
  IF file.object THEN file.items ELSE NoItems

\* Storage::new (Items::load and PersistThread::new) for the file found on
\* disk.  items and changed are the Items behind the RwLock, lock the state
\* of the RwLock, file the file on disk, msgs the messages in the channel,
\* tx whether the sender exists, pc the position of the persist thread,
\* main the position of the thread that uses the Storage, clones the
\* Storage values alive.
StorageNew(file) ==
  [items |-> load_items(file), changed |-> FALSE, lock |-> "free", file |-> file,
   msgs |-> 0, tx |-> TRUE, pc |-> "recv", main |-> "idle", clones |-> 1]

\* Mutant of items_set: an equal value is stored again and marked as changed.
items_set_Always(c, key, item) ==
  [c EXCEPT !.items[key] = Some(item), !.changed = TRUE]

\* Items::set
items_set(c, key, item) ==
  IF c.items[key] = Some(item)
    THEN c
    ELSE [c EXCEPT !.items[key] = Some(item), !.changed = TRUE]

\* Items::persist; ok is whether fs::write succeeds
persist(c, ok) ==
  IF c.changed
    THEN [c EXCEPT !.changed = FALSE,
                   !.file = IF ok THEN [object |-> TRUE, items |-> c.items] ELSE @]
    ELSE c

\* AptInfos::None; kind is the variant, click the number of the secondary
\* click that opened a Menu (history), list the Option<Vec<AptInfo>> of a
\* Menu or the Vec<AptInfo> of a Dialog
AptNone ==
  [kind |-> "None", click |-> 0, list |-> None]

AppNew(night) ==
  [chart |-> "None", apt_infos |-> AptNone, find_dlg |-> FALSE,
   apt_out |-> <<>>, h_clicks |-> 0, long_press |-> TrackerNew,
   config |-> StorageNew([object |-> FALSE, items |-> NoItems]), px_size |-> <<0, 0>>, image |-> None,
   disp_rect |-> Rect(0, 0, 0, 0),
   scroll |-> None, zoom |-> QOne, night_mode |-> night,
   side_panel |-> TRUE, side_panel_width |-> 0, ui_enabled |-> TRUE,
   file_dlg |-> FALSE, error_dlg |-> FALSE, panicked |-> FALSE,
   win |-> <<6, 4>>, sa_offset |-> QPos(0, 0),
   out |-> <<>>, repaint |-> FALSE, opened |-> FALSE,
   nEvents |-> 0, h_assert |-> FALSE, h_errors |-> TRUE, h_failed |-> {}, h_night0 |-> night,
   h_input |-> FALSE, h_woken |-> FALSE, h_panel0 |-> TRUE, h_dlg |-> NoDlg,
   h_frame |-> NoFrame]

\* App::request_image; ImagePart::new asserts zoom > 0.0 and panics otherwise
request_image(a, rect, zoom) ==
  IF a.chart = "Ready"
    THEN IF QLess(QZero, zoom)
           THEN [a EXCEPT !.out = Append(@, ReqRead(ImagePart(rect, zoom, a.night_mode)))]
           ELSE [a EXCEPT !.panicked = TRUE, !.h_assert = TRUE]
    ELSE a

\* App::set_chart_zoom
set_chart_zoom(a, val) ==
  IF a.chart = "Ready" /\ a.zoom # val
    THEN [a EXCEPT !.zoom = val, !.apt_infos = AptNone]
    ELSE a

\* App::set_chart_image
set_chart_image(a, p) ==
  IF a.chart = "Ready" THEN [a EXCEPT !.image = Some(p)] ELSE a

\* App::set_chart_disp_rect
set_chart_disp_rect(a, rect) ==
  IF a.chart = "Ready" /\ a.disp_rect # rect
    THEN [a EXCEPT !.disp_rect = rect, !.apt_infos = AptNone]
    ELSE a

\* App::set_chart_scroll: pos.x.trunc().max(0.0), pos.y.trunc().max(0.0)
set_chart_scroll(a, pos) ==
  IF a.chart = "Ready"
    THEN [a EXCEPT !.scroll = Some(QPos(Max(QTrunc(pos[1]), 0),
                                        Max(QTrunc(pos[2]), 0)))]
    ELSE a

\* App::goto_coord, for a coordinate whose pixel position is coord
goto_coord(a, coord) ==
  IF a.chart = "Ready" /\ coord[1] \in 0..(a.px_size[1] - 1)
                       /\ coord[2] \in 0..(a.px_size[2] - 1)
    THEN LET x == QSub(QInt(coord[1]), Q(a.disp_rect.size[1], 2))
             y == QSub(QInt(coord[2]), Q(a.disp_rect.size[2], 2))
         IN set_chart_scroll(set_chart_zoom(a, QOne), <<x, y>>)
    ELSE a

\* App::toggle_side_panel
toggle_side_panel(a, visible) ==
  LET b == [a EXCEPT !.side_panel = visible]
      pos == b.disp_rect.pos
      offset == b.side_panel_width + 1
      x == IF ~b.side_panel THEN pos[1] - offset ELSE pos[1] + offset
  IN IF b.chart = "Ready" THEN set_chart_scroll(b, QPos(x, pos[2])) ELSE b

\* Mutant of set_night_mode: the re-request is made with a zoom of 0.0 (a
\* default part) instead of the zoom of the image on display.
set_night_mode_ZeroZoom(a, night_mode) ==
  IF a.night_mode # night_mode
    THEN LET b == [a EXCEPT !.night_mode = night_mode]
         IN IF b.chart = "Ready" /\ b.image # None
              THEN request_image(b, b.image[1].rect, QZero)
              ELSE b
    ELSE a

\* App::set_night_mode
set_night_mode(a, night_mode) ==
  IF a.night_mode # night_mode
    THEN LET b == [a EXCEPT !.night_mode = night_mode]
         IN IF b.chart = "Ready" /\ b.image # None
              THEN request_image(b, b.image[1].rect, b.image[1].zoom)
              ELSE b
    ELSE a

\* Mutant of get_min_zoom: the floor MIN_ZOOM is left out.
get_min_zoom_NoFloor(a) ==
  QMax(Q(a.disp_rect.size[1], a.px_size[1]), Q(a.disp_rect.size[2], a.px_size[2]))

\* ChartInfo::get_min_zoom: sw.max(sh).max(MIN_ZOOM)
get_min_zoom(a) ==
  LET sw == Q(a.disp_rect.size[1], a.px_size[1])
      sh == Q(a.disp_rect.size[2], a.px_size[2])
  IN QMax(QMax(sw, sh), MIN_ZOOM)

\* ChartInfo::get_zoom_pos: ratio * (pos + offset) - offset per axis, with
\* offset = size * 0.5 and ratio = zoom / self.zoom
get_zoom_pos(a, zoom) ==
  LET pos == a.disp_rect.pos
      size == a.disp_rect.size
      ratio == QDiv(zoom, a.zoom)
      Axis(i) == LET offset == Q(size[i], 2)
                 IN QSub(QMul(ratio, QAdd(QInt(pos[i]), offset)), offset)
  IN <<Axis(1), Axis(2)>>

\* App::open_chart after self.chart = Chart::None: the result of Source::open
open_chart(a, ok) ==
  IF ok
    THEN [a EXCEPT !.chart = "Ready", !.px_size = ChartSize, !.image = None,
                   !.disp_rect = Rect(0, 0, 0, 0), !.scroll = Some(QPos(0, 0)),
                   !.zoom = QOne, !.opened = TRUE]
    ELSE [a EXCEPT !.chart = "None", !.image = None, !.error_dlg = TRUE]

\* Mutant of handle_reply: a GdalError reply clears the image on display.
handle_reply_ErrClears(a, r) ==
  CASE r.kind = "Image" -> set_chart_image(a, r.part[1])
    [] r.kind = "GdalError" -> [a EXCEPT !.image = None]
    [] OTHER -> a

\* update, lines 350-358: the match on one reply of the chart source; the
\* GdalError arm only prints
handle_reply(a, r) ==
  CASE r.kind = "Image" -> set_chart_image(a, r.part[1])
    [] r.kind = "GdalError" ->
         IF a.h_errors
           THEN [a EXCEPT !.h_failed = @ \cup {r.part[1]}]
           ELSE a
    [] OTHER -> a

\* update, lines 349-359: while let Some(reply) = self.get_next_chart_reply()
RECURSIVE ProcessReplies(_, _)
ProcessReplies(a, q) ==
  IF a.chart # "Ready" \/ q = <<>>
    THEN a
    ELSE ProcessReplies(handle_reply(a, Head(q)), Tail(q))

\* process_input_events: Key::Escape and Ctrl+F (in.apt_loaded is what
\* nasr_reader.apt_loaded() returns)
KeyEvents(a, in) ==
  IF ~a.ui_enabled
    THEN a
    ELSE CASE in.event = "escape" ->
                IF a.apt_infos.kind = "Menu"
                  THEN [a EXCEPT !.apt_infos = AptNone]
                  ELSE IF ~a.file_dlg THEN toggle_side_panel(a, FALSE) ELSE a
           [] in.event = "find" /\ in.apt_loaded /\ a.chart = "Ready" ->
                [a EXCEPT !.find_dlg = TRUE, !.apt_infos = AptNone]
           [] OTHER -> a

\* update, lines 402-437: the file dialog.  The chart that was open has been
\* dropped by the time this runs (see Frame and FrameJoin).
FileDlg(a, in) ==
  IF ~a.file_dlg
    THEN a
    ELSE IF in.file = "visible"
      THEN [a EXCEPT !.ui_enabled = FALSE]
      ELSE LET b == CASE in.file = "many" -> [a EXCEPT !.chart = "Load", !.image = None]
                      [] in.file = "one" -> open_chart(a, in.open_ok)
                      [] in.file = "bad" -> [a EXCEPT !.error_dlg = TRUE]
                      [] OTHER -> a
           IN [b EXCEPT !.file_dlg = FALSE, !.ui_enabled = TRUE]

\* The chart selection dialog with a cancel that keeps the choice pending.
LoadDlg_CancelKeeps(a, in) ==
  IF a.chart # "Load"
    THEN a
    ELSE IF in.select = "none"
      THEN [a EXCEPT !.ui_enabled = FALSE]
      ELSE IF in.select = "index"
        THEN open_chart([a EXCEPT !.ui_enabled = TRUE], in.open_ok)
        ELSE [a EXCEPT !.ui_enabled = TRUE]

\* update, lines 440-452: the chart selection dialog
LoadDlg(a, in) ==
  IF a.chart # "Load"
    THEN a
    ELSE IF in.select = "none"
      THEN [a EXCEPT !.ui_enabled = FALSE]
      ELSE IF in.select = "index"
        THEN open_chart([a EXCEPT !.ui_enabled = TRUE], in.open_ok)
        ELSE [a EXCEPT !.ui_enabled = TRUE, !.chart = "None"]

\* update, lines 496-502: the error dialog
ErrorDlg(a, in) ==
  IF ~a.error_dlg
    THEN a
    ELSE IF in.err_close
      THEN [a EXCEPT !.error_dlg = FALSE, !.ui_enabled = TRUE]
      ELSE [a EXCEPT !.ui_enabled = FALSE]

\* update, lines 504-568: the top panel
TopPanel(a, in) ==
  IF ~a.ui_enabled
    THEN a
    ELSE CASE in.event = "panel" -> toggle_side_panel(a, ~a.side_panel)
           [] in.event = "zoom_plus" /\ a.chart = "Ready" /\ QLess(a.zoom, QOne) ->
                LET new_zoom == QMin(QMul(a.zoom, Q(5, 4)), QOne)
                IN IF new_zoom # a.zoom
                     THEN [a EXCEPT !.scroll = Some(get_zoom_pos(a, new_zoom)),
                                    !.zoom = new_zoom]
                     ELSE a
           [] in.event = "zoom_minus" /\ a.chart = "Ready"
                                      /\ QLess(get_min_zoom(a), a.zoom) ->
                LET new_zoom == QMax(QMul(a.zoom, Q(4, 5)), get_min_zoom(a))
                IN IF new_zoom # a.zoom
                     THEN [a EXCEPT !.scroll = Some(get_zoom_pos(a, new_zoom)),
                                    !.zoom = new_zoom]
                     ELSE a
           [] OTHER -> a

\* update, lines 570-591: the side panel
SidePanel(a, in) ==
  IF ~a.side_panel
    THEN a
    ELSE LET b == [a EXCEPT !.side_panel_width = PanelWidth]
         IN IF ~b.ui_enabled
              THEN b
              ELSE CASE in.event = "open_zip" -> [b EXCEPT !.file_dlg = TRUE]
                     [] in.event = "night" -> set_night_mode(b, ~b.night_mode)
                     [] OTHER -> b

\* The size egui leaves for the central panel.
ViewSize(a) ==
  <<a.win[1] - (IF a.side_panel THEN a.side_panel_width + 1 ELSE 0), a.win[2]>>

\* The offset the ScrollArea reports (response.state.offset): the seeded or
\* stored offset moved by the user's scroll input and kept inside the content
\* (the chart scaled by zoom).
ScrollOffset(a, in, scroll, size) ==
  LET base == IF scroll # None THEN scroll[1]
              ELSE IF in.event = "scroll" /\ a.ui_enabled
                THEN <<QAdd(a.sa_offset[1], in.delta[1]),
                       QAdd(a.sa_offset[2], in.delta[2])>>
                ELSE a.sa_offset
      Axis(i) == QMax(QZero,
                      QMin(base[i],
                           QSub(QMul(QInt(a.px_size[i]), a.zoom), QInt(size[i]))))
  IN <<Axis(1), Axis(2)>>

\* util::Rect { pos: pos.into(), size: size.into() }: the f32 offset becomes
\* the integer position of the display rectangle
RectFrom(pos, size) ==
  Rect(QTrunc(pos[1]), QTrunc(pos[2]), size[1], size[2])

\* f32::clamp(min, max), which panics when min > max
ClampZoom(a, z, lo, hi) ==
  IF QLess(hi, lo)
    THEN [a EXCEPT !.panicked = TRUE]
    ELSE set_chart_zoom(a, QMax(lo, QMin(z, hi)))

\* Mutant of needs_request: the zoom of the image is not compared.
needs_request_RectOnly(p, display_rect, request_zoom) ==
  p.rect # display_rect

\* Mutant of needs_request: only the zoom is compared.
needs_request_ZoomOnly(p, display_rect, request_zoom) ==
  p.zoom # request_zoom

\* update, line 651: part.rect != display_rect || part.zoom != request_zoom.into()
needs_request(p, display_rect, request_zoom) ==
  p.rect # display_rect \/ p.zoom # request_zoom

\* Mutant of needs_initial: a frame without an image always asks for one.
needs_initial_EveryFrame(scroll, zoom) ==
  TRUE

\* update, line 659: else if scroll.is_some() && zoom == 1.0
needs_initial(scroll, zoom) ==
  scroll # None /\ zoom = QOne

\* Mutant of zoom_gesture: the zoom is stored as multiplied, without the clamp.
zoom_gesture_NoClamp(a, zoom, pos, min_zoom, mod, anchor) ==
  LET new_zoom == QMul(zoom, mod)
      Axis(i) == QSub(QDiv(QMul(QAdd(pos[i], anchor[i]), new_zoom), zoom),
                      anchor[i])
  IN IF new_zoom # zoom
       THEN [set_chart_scroll(set_chart_zoom(a, new_zoom), <<Axis(1), Axis(2)>>)
               EXCEPT !.repaint = TRUE]
       ELSE a

\* Mutant of zoom_gesture: the scroll offset is scaled about the viewport
\* origin instead of the pointer.
zoom_gesture_NoAnchor(a, zoom, pos, min_zoom, mod, anchor) ==
  LET new_zoom == QMul(zoom, mod)
  IN IF new_zoom # zoom
       THEN LET b == ClampZoom(a, new_zoom, min_zoom, QOne)
                Axis(i) == QDiv(QMul(pos[i], b.zoom), zoom)
            IN IF b.panicked
                 THEN b
                 ELSE [set_chart_scroll(b, <<Axis(1), Axis(2)>>)
                         EXCEPT !.repaint = TRUE]
       ELSE a

\* update, lines 664-680: the zoom gesture, for a pointer inside the viewport;
\* zoom and pos are the zoom and the offset the central panel began with,
\* anchor is zoom_pos - response.inner_rect.min
zoom_gesture(a, zoom, pos, min_zoom, mod, anchor) ==
  LET new_zoom == QMul(zoom, mod)
  IN IF new_zoom # zoom
       THEN LET b == ClampZoom(a, new_zoom, min_zoom, QOne)
                Axis(i) == QSub(QDiv(QMul(QAdd(pos[i], anchor[i]), b.zoom), zoom),
                                anchor[i])
            IN IF b.panicked
                 THEN b
                 ELSE [set_chart_scroll(b, <<Axis(1), Axis(2)>>)
                         EXCEPT !.repaint = TRUE]
       ELSE a

\* update, lines 682-699: the secondary click at the end of the central
\* panel, as far as the airport choices go: in.inside is response.inner_rect.contains(click_pos), in.converted
\* whether chart_to_nad83 returned Ok (both computed by secondary_click).
SecondaryClick(a, in) ==
  IF a.chart = "Ready" /\ ~a.panicked /\ in.event = "click" /\ in.inside
    THEN LET n == a.h_clicks + 1
             b == IF in.converted
                    THEN [a EXCEPT !.apt_infos =
                            [kind |-> "Menu", click |-> n, list |-> None]]
                    ELSE a
             c == IF in.spatial_idx
                    THEN [b EXCEPT !.apt_out =
                            Append(@, [type |-> "Nearby", click |-> n,
                                       arg |-> in.apt_arg])]
                    ELSE b
         IN [c EXCEPT !.h_clicks = n]
    ELSE a

\* update, lines 593-701: the central panel (scroll area, image requests, zoom
\* gesture)
CentralPanel(a, in) ==
  IF a.chart # "Ready" \/ a.panicked
    THEN [a EXCEPT !.h_frame = NoFrame]
    ELSE
      LET zoom == a.zoom
          scroll == a.scroll
          size == ViewSize(a)
          pos == ScrollOffset(a, in, scroll, size)
          display_rect == RectFrom(pos, size)
          a0 == [set_chart_disp_rect([a EXCEPT !.scroll = None], display_rect)
                   EXCEPT !.sa_offset = pos]
          a1 == IF ~in.momentum /\ ~(IsInt(pos[1]) /\ IsInt(pos[2]))
                  THEN set_chart_scroll(a0, pos)
                  ELSE a0
          min_zoom == get_min_zoom(a1)
          request_zoom == QMax(zoom, min_zoom)
          a2 == IF a1.image # None
                  THEN LET b == IF needs_request(a1.image[1], display_rect, request_zoom)
                                  THEN request_image(a1, display_rect, request_zoom)
                                  ELSE a1
                       IN IF request_zoom # zoom
                            THEN [set_chart_zoom(b, request_zoom) EXCEPT !.repaint = TRUE]
                            ELSE b
                  ELSE IF needs_initial(scroll, zoom)
                    THEN request_image(a1, display_rect, zoom)
                    ELSE a1
          a3 == IF in.event = "zoom"
                  THEN zoom_gesture(a2, zoom, pos, min_zoom, in.mod, in.anchor)
                  ELSE a2
      IN [a3 EXCEPT !.h_frame =
            [ready |-> TRUE, image |-> a1.image, rect |-> display_rect,
             zoom0 |-> zoom, zoom |-> request_zoom, min_zoom |-> min_zoom,
             dark |-> a.night_mode, toggled |-> a.night_mode # a.h_night0,
             seeded |-> scroll # None, taken |-> scroll, event |-> in.event,
             sent |-> a3.out, pos0 |-> a.disp_rect.pos, panel0 |-> a.h_panel0]]

\* The input of one frame: at most one user event, and the outcome of each
\* dialog that can be open in the frame.
NoEvent ==
  [event |-> "none", delta |-> QPos(0, 0), momentum |-> FALSE, win |-> <<0, 0>>,
   mod |-> QOne, anchor |-> QPos(0, 0), coord |-> <<0, 0>>]

UserEvents(a) ==
  {[NoEvent EXCEPT !.event = e] :
     e \in {"escape", "panel", "zoom_plus", "zoom_minus", "open_zip", "night"}}
  \cup {[NoEvent EXCEPT !.event = "scroll", !.delta = d] : d \in ScrollDeltas}
  \cup {[NoEvent EXCEPT !.event = "resize", !.win = w] : w \in WinSizes \ {a.win}}
  \cup {[NoEvent EXCEPT !.event = "zoom", !.mod = m, !.anchor = p] :
          m \in ZoomMods, p \in ZoomAnchors}

\* What the dialogs of one frame return.  A field that no dialog of the frame
\* reads has its default value.
DialogOutcomes(a) ==
  {d \in [file : IF a.file_dlg
                   THEN {"visible", "cancel", "one", "many", "aero", "bad"}
                   ELSE {"visible"},
          open_ok : BOOLEAN,
          select : {"none", "index", "cancel"},
          err_close : BOOLEAN] :
     /\ d.select # "none" => (a.chart = "Load" \/ d.file = "many")
     /\ ~d.open_ok => (d.file = "one" \/ d.select = "index")
     /\ d.err_close => (a.error_dlg \/ d.file = "bad" \/ ~d.open_ok)}

\* The fields of the airport reader (apt_loaded, spatial_idx, nasr: the
\* replies get_next_reply hands out in the frame), of a secondary click
\* (inside, converted; apt_arg is the argument of its nearby call), the term
\* typed in the find dialog and of the airport dialogs (apt_dlg, find, menu) have
\* the values of a frame without an airport database.
Input(e, d) ==
  [event |-> e.event, delta |-> e.delta, momentum |-> e.momentum,
   win |-> e.win, mod |-> e.mod, anchor |-> e.anchor, coord |-> e.coord,
   file |-> d.file, open_ok |-> d.open_ok,
   select |-> d.select, err_close |-> d.err_close,
   apt_loaded |-> FALSE, spatial_idx |-> FALSE, nasr |-> <<>>,
   inside |-> FALSE, converted |-> FALSE, apt_arg |-> <<>>, term |-> <<>>,
   apt_dlg |-> "none", find |-> "none", menu |-> "none"]

Inputs(a) ==
  {Input(e, d) : e \in UserEvents(a) \cup {NoEvent}, d \in DialogOutcomes(a)}

\* update, lines 361-398: the replies of the airport reader; an Airport reply
\* with an airport, or a Search reply with one airport, pans the chart to it
NasrReplies(a, in) ==
  IF in.event = "goto" THEN goto_coord(a, in.coord) ELSE a

\* AptInfo::non_public_heliport
non_public_heliport(info) ==
  info.site_type = "H" /\ info.private

\* update, lines 370-374 and 382-386: the infos of a reply, filtered
Filtered(infos) ==
  SelectSeq(infos, LAMBDA info : ~non_public_heliport(info))

\* update, lines 362-398: the match on one reply of the airport reader.  A
\* reply carries, as `click`, the number of the secondary click whose query
\* it answers (history: the program keeps no such number), and the list it
\* installs keeps it as `of`.  The pan to the only airport of a Search reply
\* is the "goto" event of NasrReplies.
nasr_reply(a, r) ==
  LET infos == Filtered(r.airports)
  IN CASE r.type = "Nearby" ->
            IF infos # <<>> /\ a.apt_infos.kind = "Menu"
              THEN [a EXCEPT !.apt_infos.list = Some([of |-> r.click, infos |-> infos])]
              ELSE a
       [] r.type = "Search" ->
            IF Len(infos) > 1
              THEN [a EXCEPT !.apt_infos =
                      [kind |-> "Dialog", click |-> 0,
                       list |-> Some([of |-> 0, infos |-> infos])]]
              ELSE a
       [] OTHER -> a

\* update, lines 362-398: while let Some(reply) = self.nasr_reader.get_next_reply()
RECURSIVE ProcessNasr(_, _)
ProcessNasr(a, q) ==
  IF q = <<>> THEN a ELSE ProcessNasr(nasr_reply(a, Head(q)), Tail(q))

\* update, lines 455-465: the airport selection dialog; the airport chosen
\* is the first of the list
AptDlg(a, in) ==
  IF a.apt_infos.kind # "Dialog"
    THEN a
    ELSE LET b == [a EXCEPT !.ui_enabled = FALSE]
         IN IF in.apt_dlg = "none"
              THEN b
              ELSE LET c == [b EXCEPT !.ui_enabled = TRUE]
                       d == IF in.apt_dlg = "index"
                              THEN goto_coord(c, in.coord)
                              ELSE c
                   IN [d EXCEPT !.apt_infos = AptNone]

\* update, lines 468-482: the find dialog; a term is handed to
\* nasr_reader.search
FindDlg(a, in) ==
  IF ~a.find_dlg
    THEN a
    ELSE LET b == [a EXCEPT !.ui_enabled = FALSE]
         IN CASE in.find = "cancel" ->
                   [b EXCEPT !.ui_enabled = TRUE, !.find_dlg = FALSE]
              [] in.find = "term" ->
                   [b EXCEPT !.ui_enabled = TRUE, !.find_dlg = FALSE,
                             !.apt_out = Append(@, [type |-> "Search", click |-> 0,
                                                    arg |-> in.term])]
              [] OTHER -> b

\* update, lines 485-491: the popup of the secondary click; any response
\* closes it
MenuPopup(a, in) ==
  IF a.apt_infos.kind = "Menu" /\ in.menu # "none"
    THEN [a EXCEPT !.apt_infos = AptNone]
    ELSE a

\* update, lines 341-398: the frame up to the file dialog: the window state,
\* the key events, the replies of the open chart and of the airport reader
FrameBegin(a, q, in) ==
  LET a0 == [a EXCEPT !.out = <<>>, !.repaint = FALSE, !.opened = FALSE,
                      !.apt_out = <<>>,
                      !.win = IF in.event = "resize" THEN in.win ELSE @,
                      !.nEvents = IF in.event # "none" THEN @ + 1 ELSE @,
                      !.h_failed = IF in.event # "none" THEN {} ELSE @,
                      !.h_night0 = a.night_mode,
                      !.h_input = (in.event # "none"),
                      !.h_panel0 = a.side_panel, !.h_dlg = NoDlg]
  IN NasrReplies(ProcessReplies(KeyEvents(a0, in), q), in)

\* The file dialog of this frame replaces an open chart: self.chart is
\* assigned (open_chart line 116, update line 419) and the old Source dropped.
NeedsDrop(a, in) ==
  /\ a.file_dlg
  /\ in.file \in {"one", "many"}
  /\ a.chart = "Ready"

----------------------------------------------------------------------------
(* chart::Source seen through its public API *)

\* Source::read_image(part): self.sender.send(Request::Read(part)).unwrap()
read_image(q, p) ==
  Append(q, ReqRead(p))

ReadImage ==
  /\ srcState = "open"
  /\ hist.nReads < MaxReads
  /\ \E p \in Parts :
       /\ reqQ' = read_image(reqQ, p)
       /\ hist' = [hist EXCEPT !.nReads = Inc(@),
                               !.submitted = IF hist.log THEN Append(@, p) ELSE @]
  /\ UNCHANGED <<replyQ, wpc, request, read, part, repaintReq, srcState>>
  /\ UNCHANGED <<lastReply, appVars>>

\* Source::get_next_reply: try_recv, Some(reply) or None, never waits
get_next_reply(q) ==
  IF q # <<>> THEN Some(Head(q)) ELSE None

GetNextReply ==
  /\ srcState = "open"
  /\ LET r == get_next_reply(replyQ) IN
       /\ lastReply' = r
       /\ replyQ' = IF r # None THEN Tail(replyQ) ELSE replyQ
  /\ UNCHANGED <<reqQ, wpc, request, read, part, repaintReq, srcState>>
  /\ UNCHANGED <<appVars, hist>>

\* Drop for Source, first half: self.sender.send(Request::Exit).unwrap()
DropSend ==
  /\ srcState = "open"
  /\ reqQ' = Append(reqQ, ReqExit)
  /\ srcState' = "joining"
  /\ hist' = [hist EXCEPT !.nExits = Inc(@)]
  /\ UNCHANGED <<replyQ, wpc, request, read, part, repaintReq>>
  /\ UNCHANGED <<lastReply, appVars>>

\* Mutant of DropJoin: drop returns without joining the thread.
DropJoin_Detached ==
  /\ srcState = "joining"
  /\ srcState' = "dropped"
  /\ UNCHANGED <<reqQ, replyQ, wpc, request, read, part, repaintReq>>
  /\ UNCHANGED <<lastReply, appVars, hist>>

\* Drop for Source, second half: thread.join().unwrap() returns once the
\* worker has returned
DropJoin ==
  /\ srcState = "joining"
  /\ wpc = "done"
  /\ srcState' = "dropped"
  /\ UNCHANGED <<reqQ, replyQ, wpc, request, read, part, repaintReq>>
  /\ UNCHANGED <<lastReply, appVars, hist>>

\* One step of the worker thread.  The record of the last frame (h_frame,
\* h_input, h_woken) describes the state a frame has just left and is
\* dropped by the next step of anything else.
WorkerStep ==
  /\ Worker
  /\ app' = ForgetFrame(app)
  /\ UNCHANGED <<lastReply, outbox, cont, apt>>

----------------------------------------------------------------------------
(* nasr.rs: the airport source and its worker thread *)

\* Strings are sequences of characters, so that to_uppercase and contains
\* are computed and not assumed.
UpperChar(c) ==
  CASE c = "a" -> "A"
    [] c = "b" -> "B"
    [] c = "c" -> "C"
    [] c = "d" -> "D"
    [] c = "l" -> "L"
    [] OTHER -> c

\* str::to_uppercase
to_uppercase(s) ==
  [i \in 1..Len(s) |-> UpperChar(s[i])]

\* str::contains
contains(s, t) ==
  \E i \in 0..(Len(s) - Len(t)) : SubSeq(s, i + 1, i + Len(t)) = t

\* The features of layer 0 of APT_BASE.csv, in table order.  loc is what
\* get_coord returns (degrees), site the SITE_TYPE_CODE field, use the
\* FACILITY_USE_CODE field.
AptTable ==
  << [id |-> <<"A", "B">>, name |-> <<"A", "L", "F">>,
      loc |-> Some(<<-97, 32>>), site |-> "A", use |-> Some("PU")],
     [id |-> <<"C", "D">>, name |-> <<"B", "A", "L">>,
      loc |-> Some(<<-96, 32>>), site |-> "H", use |-> Some("PR")],
     [id |-> <<"A", "L">>, name |-> <<"A", "L", "X">>,
      loc |-> Some(<<-97, 33>>), site |-> "A", use |-> Some("PU")],
     [id |-> <<"E", "F">>, name |-> <<"A", "L", "T">>,
      loc |-> None, site |-> "A", use |-> Some("PU")],
     [id |-> <<"G", "H">>, name |-> <<"D", "A", "X">>,
      loc |-> Some(<<-97, 32>>), site |-> "Z", use |-> Some("PU")] >>

\* get_site_type
get_site_type(f) ==
  IF f.site \in {"A", "B", "C", "G", "H", "U"} THEN Some(f.site) ELSE None

\* APTInfo::new
APTInfoNew(f) ==
  IF f.loc # None /\ get_site_type(f) # None /\ f.use # None
  THEN Some([id |-> f.id, name |-> f.name, loc |-> f.loc[1],
             site_type |-> f.site, private |-> f.use[1] = "PR"])
  ELSE None

\* The Vec<APTInfo> pushed for the features fs, in order.
Infos(fs) ==
  LET ok == SelectSeq(fs, LAMBDA f : APTInfoNew(f) # None)
  IN [i \in 1..Len(ok) |-> APTInfoNew(ok[i])[1]]

\* PROJ4 texts a chart can hand to set_spatial_ref; from_proj4 accepts the
\* first two.
Proj4Texts ==
  {"lccA", "lccB", "bad"}

\* SpatialRef::from_proj4 followed by CoordTransform::new
CoordTransformNew(proj4) ==
  IF proj4 \in {"lccA", "lccB"} THEN Some(proj4) ELSE None

\* CoordTransform::transform_coords: degrees (NAD83) to metres in the
\* chart's projection; an affine stand-in for the LCC projection with a
\* different origin per chart.
transform_coords(trans, loc) ==
  IF trans = "lccA"
  THEN <<(loc[1] + 97) * 100, (loc[2] - 32) * 100>>
  ELSE <<(loc[1] + 96) * 100, (loc[2] - 32) * 100>>

\* APTRequest::Airport arm: the first feature with the id, if any.
airport_by_id(val) ==
  LET id == to_uppercase(val)
      hits == {i \in 1..Len(AptTable) : AptTable[i].id = id}
  IN IF hits = {} THEN <<>>
     ELSE APTInfoNew(AptTable[CHOOSE i \in hits : \A j \in hits : i <= j])

\* s < dist * dist for an integer s and a fraction dist >= 0, in exact
\* arithmetic.  With dist = k + r/d (0 <= r < d) the comparison is
\* (s - k*k) * d*d < 2*k*r*d + r*r, evaluated in steps so that no
\* intermediate value leaves the 32-bit integers of the model checker.
SqLess(s, dist) ==
  LET d == dist[2]
      k == dist[1] \div d
      r == dist[1] % d
      b == (s - k * k) * d - 2 * k * r
  IN IF b < 0 THEN TRUE
     ELSE IF b >= d THEN FALSE
     ELSE b * d < r * r

\* APTRequest::Nearby arm that projects with a default transform when none
\* has been set.
nearby_airports_DefaultTransform(transform, coord, dist) ==
  LET trans == IF transform = None THEN "lccA" ELSE transform[1]
  IN Infos(SelectSeq(AptTable, LAMBDA f :
       /\ f.loc # None
       /\ LET p == transform_coords(trans, f.loc[1])
              dx == coord[1] - p[1]
              dy == coord[2] - p[2]
          IN SqLess(dx * dx + dy * dy, dist)))

\* s <= dist * dist, as SqLess.
SqLeq(s, dist) ==
  SqLess(s, dist) \/ (dist[2] = 1 /\ s = dist[1] * dist[1])

\* APTRequest::Nearby arm that also takes a feature exactly dist away.
nearby_airports_Inclusive(transform, coord, dist) ==
  IF transform = None THEN <<>>
  ELSE Infos(SelectSeq(AptTable, LAMBDA f :
         /\ f.loc # None
         /\ LET p == transform_coords(transform[1], f.loc[1])
                dx == coord[1] - p[1]
                dy == coord[2] - p[2]
            IN SqLeq(dx * dx + dy * dy, dist)))

\* APTRequest::Nearby arm
nearby_airports(transform, coord, dist) ==
  IF transform = None THEN <<>>
  ELSE Infos(SelectSeq(AptTable, LAMBDA f :
         /\ f.loc # None
         /\ LET p == transform_coords(transform[1], f.loc[1])
                dx == coord[1] - p[1]
                dy == coord[2] - p[2]
            IN SqLess(dx * dx + dy * dy, dist)))

\* APTRequest::Search arm that compares the term as typed.
search_airports_NoUpper(val) ==
  Infos(SelectSeq(AptTable, LAMBDA f :
    f.id = val \/ contains(f.name, val)))

\* APTRequest::Search arm
search_airports(val) ==
  LET term == to_uppercase(val)
  IN Infos(SelectSeq(AptTable, LAMBDA f :
       f.id = term \/ contains(f.name, term)))

\* Mutant of set_transform: a text that gives no transform clears the one set.
set_transform_Clears(transform, proj4) ==
  CoordTransformNew(proj4)

\* APTRequest::SpatialRef arm: transform = Some(trans) when from_proj4 and
\* CoordTransform::new both succeed, otherwise transform is left as it is.
set_transform(transform, proj4) ==
  IF CoordTransformNew(proj4) # None THEN CoordTransformNew(proj4) ELSE transform

\* thread_receiver.recv() that hands over the newest message.
recv_Latest(q) ==
  [msg |-> q[Len(q)], rest |-> <<>>]

\* thread_receiver.recv(): the oldest message of the channel
recv(q) ==
  [msg |-> Head(q), rest |-> Tail(q)]

\* The APTSource after open returned Ok: channels empty, the worker at the
\* top of its loop with no transform.
AptNew ==
  [sender |-> <<>>, receiver |-> <<>>, pc |-> "recv", request |-> None,
   transform |-> None, repaint |-> FALSE, state |-> "open"]

----------------------------------------------------------------------------
(* Specifications of the chart worker *)

\* The state after Source::open returned Ok: channels empty, worker at the
\* top of its loop.
Init ==
  /\ reqQ = <<>>
  /\ replyQ = <<>>
  /\ wpc = "recv"
  /\ request = None
  /\ read = None
  /\ part = None
  /\ repaintReq = FALSE
  /\ srcState = "open"
  /\ lastReply = None
  /\ app = AppNew(FALSE)
  /\ outbox = <<>>
  /\ cont = None
  /\ apt = AptNew
  /\ hist = HistInit

Next ==
  \/ ReadImage
  \/ GetNextReply
  \/ DropSend
  \/ DropJoin
  \/ WorkerStep

Spec ==
  Init /\ [][Next]_vars

\* The worker is a running thread: whenever it can take a step it eventually does.
FairSpec ==
  Spec /\ WF_vars(WorkerStep)

\* The Source with every read_image call and every reply recorded.
ReadsInit ==
  /\ reqQ = <<>>
  /\ replyQ = <<>>
  /\ wpc = "recv"
  /\ request = None
  /\ read = None
  /\ part = None
  /\ repaintReq = FALSE
  /\ srcState = "open"
  /\ lastReply = None
  /\ app = AppNew(FALSE)
  /\ outbox = <<>>
  /\ cont = None
  /\ apt = AptNew
  /\ hist = [HistInit EXCEPT !.log = TRUE]

ReadsSpec ==
  ReadsInit /\ [][Next]_vars /\ WF_vars(WorkerStep)

----------------------------------------------------------------------------
(* The viewer: App::update frames driving the Source of the open chart *)

\* Mutant of FreshSource: the new Source reads the reply channel of the
\* Source before it.
FreshSource_SharedChannel ==
  /\ reqQ' = <<>>
  /\ replyQ' = replyQ
  /\ wpc' = "recv"
  /\ request' = None
  /\ read' = None
  /\ part' = None
  /\ srcState' = "open"
  /\ hist' = HistApp

\* The worker state right after Source::open returned Ok.
FreshSource ==
  /\ reqQ' = <<>>
  /\ replyQ' = <<>>
  /\ wpc' = "recv"
  /\ request' = None
  /\ read' = None
  /\ part' = None
  /\ srcState' = "open"
  /\ hist' = HistApp

\* update, lines 362-701: the Nearby and Search replies of the airport
\* reader, the dialogs and the panels in the order of the code, then what
\* the frame leaves in App, the read_image calls it makes and the
\* repaint it asked for.  rq is the reply queue it leaves, rp the
\* repaint requests made by others while it ran.
FrameEnd(a, in, rq, rp) ==
  \E n1 \in {ProcessNasr(a, in.nasr)} :
  \E a1 \in {FileDlg(n1, in)} :
  \E a2 \in {LoadDlg(a1, in)} :
  \E d1 \in {AptDlg(a2, in)} :
  \E d2 \in {FindDlg(d1, in)} :
  \E d3 \in {MenuPopup(d2, in)} :
  \E a3 \in {ErrorDlg(d3, in)} :
  \E a4 \in {TopPanel(a3, in)} :
  \E a5 \in {SidePanel(a4, in)} :
  \E c1 \in {CentralPanel(a5, in)} :
  \E f \in {SecondaryClick(c1, in)} :
     /\ app' = [f EXCEPT !.out = <<>>, !.repaint = FALSE, !.opened = FALSE,
                         !.apt_out = <<>>,
                         !.h_dlg = [done |-> TRUE, file |-> in.file,
                                    select |-> in.select,
                                    open_ok |-> in.open_ok,
                                    err_close |-> in.err_close]]
     /\ outbox' = f.out
     /\ repaintReq' = (rp \/ f.repaint)
     /\ cont' = None
     /\ lastReply' = lastReply
     /\ apt' = [apt EXCEPT !.sender = @ \o f.apt_out,
                           !.receiver = SubSeq(@, Len(in.nasr) + 1, Len(@))]
     /\ IF f.opened
          THEN FreshSource
          ELSE /\ replyQ' = rq
               /\ srcState' = IF srcState = "joining" THEN "dropped" ELSE srcState
               /\ UNCHANGED <<reqQ, wpc, request, read, part, hist>>

FrameRun(in) ==
  LET a == [FrameBegin(app, replyQ, in) EXCEPT !.h_woken = repaintReq]
  IN IF NeedsDrop(a, in)
       THEN /\ app' = a
            /\ cont' = Some(in)
            /\ reqQ' = Append(reqQ, ReqExit)
            /\ srcState' = "joining"
            /\ replyQ' = <<>>
            /\ repaintReq' = FALSE
            /\ hist' = [hist EXCEPT !.nExits = Inc(@)]
            /\ UNCHANGED <<wpc, request, read, part, outbox, lastReply, apt>>
       ELSE FrameEnd(a, in, IF app.chart = "Ready" THEN <<>> ELSE replyQ, FALSE)

\* App::update.  eframe runs a frame when a repaint was requested and on any
\* input, pointer motion included, so a frame can start at any time; the
\* frames that carry one of the user events of UserEvents are counted.  When
\* a frame has to drop the Source of the open chart it sends Exit and waits in
\* thread.join(); FrameJoin is the rest of that frame.  The request queue
\* is capped by MaxQueue.
\*
\* Mutant of Frame: the replies are awaited with a blocking receive, so a
\* frame that finds no reply queued stays in the receive.
Frame_WaitsForReply ==
  /\ cont = None
  /\ outbox = <<>>
  /\ ~app.panicked
  /\ Len(reqQ) < MaxQueue
  /\ \E in \in Inputs(app) :
       /\ in.event # "none" => app.nEvents < MaxUserEvents
       /\ IF app.chart = "Ready" /\ replyQ = <<>>
            THEN /\ cont' = Some(in)
                 /\ UNCHANGED <<wVars, lastReply, app, outbox, apt, hist>>
            ELSE FrameRun(in)

Frame ==
  /\ cont = None
  /\ outbox = <<>>
  /\ ~app.panicked
  /\ Len(reqQ) < MaxQueue
  /\ \E in \in Inputs(app) :
       /\ in.event # "none" => app.nEvents < MaxUserEvents
       /\ FrameRun(in)

FrameJoin ==
  /\ cont # None
  /\ srcState = "joining"
  /\ wpc = "done"
  /\ FrameEnd([app EXCEPT !.chart = "None", !.image = None], cont[1], <<>>, repaintReq)

\* One read_image call of the frame reaches the request queue.
Deliver ==
  /\ outbox # <<>>
  /\ srcState = "open"
  /\ reqQ' = Append(reqQ, Head(outbox))
  /\ outbox' = Tail(outbox)
  /\ app' = ForgetFrame(app)
  /\ UNCHANGED <<replyQ, wpc, request, read, part, repaintReq, srcState>>
  /\ UNCHANGED <<lastReply, cont, apt, hist>>

\* The state after App::new: no chart, no Source, the first frame due.
AppInit ==
  /\ reqQ = <<>>
  /\ replyQ = <<>>
  /\ wpc = "none"
  /\ request = None
  /\ read = None
  /\ part = None
  /\ repaintReq = TRUE
  /\ srcState = "none"
  /\ lastReply = None
  /\ app \in {AppNew(night) : night \in BOOLEAN}
  /\ outbox = <<>>
  /\ cont = None
  /\ apt = AptNew
  /\ hist = HistApp

AppNext ==
  \/ Frame
  \/ FrameJoin
  \/ Deliver
  \/ WorkerStep

AppSpec ==
  AppInit /\ [][AppNext]_vars

----------------------------------------------------------------------------
(* The viewport of one open chart: the frames of App::update from the frame *)
(* that opened the chart on, with no file dialog.  The worker is taken by   *)
(* whole turns of its loop, which is all a frame can observe of it.         *)

\* frames that carry user input in ViewSpec
MaxViewEvents ==
  2

\* Window sizes in ViewSpec; the larger one is wider than the chart.
ViewWins ==
  {<<6, 4>>, <<10, 4>>}

\* Pixel positions of the airports a reply of the airport reader names.
GotoCoords ==
  {<<5, 3>>}

\* A drag released with momentum, the offset moving by a fraction of a pixel.
FlingDeltas ==
  {<<Q(1, 2), QZero>>}

\* The user events of a frame in ViewSpec: those of UserEvents except the
\* button that opens the file dialog, a scroll with momentum, and the reply of
\* the airport reader that follows a search.
ViewEvents(a) ==
  {e \in UserEvents(a) : e.event \notin {"open_zip", "resize"}}
  \cup {[NoEvent EXCEPT !.event = "resize", !.win = w] : w \in ViewWins \ {a.win}}
  \cup {[NoEvent EXCEPT !.event = "scroll", !.delta = d, !.momentum = TRUE] :
          d \in FlingDeltas}
  \cup {[NoEvent EXCEPT !.event = "goto", !.coord = c] : c \in GotoCoords}

\* No dialog is open.
NoDialogs ==
  [file |-> "visible", open_ok |-> TRUE, select |-> "none", err_close |-> FALSE]

ViewInputs(a) ==
  {Input(e, NoDialogs) : e \in ViewEvents(a) \cup {NoEvent}}

\* The frame in which the file dialog returned the chart: open_chart, then
\* the panels.
OpenFrame(night, win) ==
  LET a == [AppNew(night) EXCEPT !.win = win, !.side_panel_width = PanelWidth,
                                 !.h_errors = FALSE]
  IN CentralPanel(open_chart(a, TRUE), Input(NoEvent, NoDialogs))

ViewInit ==
  /\ reqQ = <<>>
  /\ replyQ = <<>>
  /\ wpc = "recv"
  /\ request = None
  /\ read = None
  /\ part = None
  /\ repaintReq = FALSE
  /\ srcState = "open"
  /\ lastReply = None
  /\ \E win \in ViewWins :
       \E f \in {OpenFrame(FALSE, win)} :
          /\ app = [f EXCEPT !.out = <<>>, !.repaint = FALSE, !.opened = FALSE]
          /\ outbox = f.out
  /\ cont = None
  /\ apt = AptNew
  /\ hist = HistApp

\* App::update with no dialog open.
ViewFrame ==
  /\ cont = None
  /\ outbox = <<>>
  /\ ~app.panicked
  /\ Len(reqQ) < MaxQueue
  /\ \E in \in ViewInputs(app) :
       /\ in.event # "none" => app.nEvents < MaxViewEvents
       /\ FrameEnd([FrameBegin(app, replyQ, in) EXCEPT !.h_woken = repaintReq],
                   in, <<>>, FALSE)

\* One turn of the worker loop (chart.rs, lines 207-266): it takes the
\* requests queued when it looks, answers Canceled for all but the last,
\* decodes the last and sends Image or GdalError, then asks for a repaint.
ViewServe ==
  /\ reqQ # <<>>
  /\ srcState = "open"
  /\ \E k \in 1..Len(reqQ), kind \in {"Image", "GdalError"} :
       /\ reqQ' = SubSeq(reqQ, k + 1, Len(reqQ))
       /\ replyQ' = replyQ
                    \o [i \in 1..(k - 1) |-> Reply("Canceled", reqQ[i].part)]
                    \o <<Reply(kind, reqQ[k].part)>>
  /\ repaintReq' = TRUE
  /\ app' = ForgetFrame(app)
  /\ UNCHANGED <<wpc, request, read, part, srcState, lastReply, outbox, cont, apt,
                  hist>>

ViewNext ==
  \/ ViewFrame
  \/ Deliver
  \/ ViewServe

ViewSpec ==
  ViewInit /\ [][ViewNext]_vars

\* The frame that eframe runs because a repaint was requested: no user event,
\* no dialog.
IdleInput ==
  Input(NoEvent, NoDialogs)

IdleFrame ==
  /\ repaintReq
  /\ cont = None
  /\ outbox = <<>>
  /\ ~app.panicked
  /\ Len(reqQ) < MaxQueue
  /\ FrameEnd([FrameBegin(app, replyQ, IdleInput) EXCEPT !.h_woken = repaintReq],
              IdleInput, <<>>, FALSE)

\* The idle frame would leave every variable as it is: it found no reply, it
\* sends no request, it asks for a repaint again, and App is as the frame
\* before left it.
IdleFrameStutters ==
  \E a \in {[FrameBegin(app, replyQ, IdleInput) EXCEPT !.h_woken = repaintReq]} :
  \E n1 \in {ProcessNasr(a, IdleInput.nasr)} :
  \E a1 \in {FileDlg(n1, IdleInput)} :
  \E a2 \in {LoadDlg(a1, IdleInput)} :
  \E d1 \in {AptDlg(a2, IdleInput)} :
  \E d2 \in {FindDlg(d1, IdleInput)} :
  \E d3 \in {MenuPopup(d2, IdleInput)} :
  \E a3 \in {ErrorDlg(d3, IdleInput)} :
  \E a4 \in {TopPanel(a3, IdleInput)} :
  \E a5 \in {SidePanel(a4, IdleInput)} :
  \E c1 \in {CentralPanel(a5, IdleInput)} :
  \E f \in {SecondaryClick(c1, IdleInput)} :
     /\ app = [f EXCEPT !.out = <<>>, !.repaint = FALSE, !.opened = FALSE,
                        !.h_dlg = [done |-> TRUE, file |-> IdleInput.file,
                                   select |-> IdleInput.select,
                                   open_ok |-> IdleInput.open_ok,
                                   err_close |-> IdleInput.err_close]]
     /\ f.out = <<>>
     /\ f.repaint
     /\ ~f.opened
     /\ replyQ = <<>>
     /\ srcState # "joining"

\* ENABLED <<IdleFrame>>_vars, written as a state predicate.
IdleFrameEnabled ==
  /\ repaintReq
  /\ cont = None
  /\ outbox = <<>>
  /\ ~app.panicked
  /\ Len(reqQ) < MaxQueue
  /\ ~IdleFrameStutters

\* The viewport as it is scheduled: a read_image call reaches the queue of
\* the worker, the worker thread takes its turn when it has a request, and
\* eframe runs a frame after a repaint request.  The last conjunct is
\* WF_vars(IdleFrame) with its ENABLED written out.
ViewFairSpec ==
  /\ ViewSpec
  /\ WF_vars(Deliver)
  /\ WF_vars(ViewServe)
  /\ ([]<>~IdleFrameEnabled \/ []<><<IdleFrame>>_vars)

----------------------------------------------------------------------------
(* chart.rs: Transform, and the secondary click of App::update that uses it *)

\* gdal::GeoTransformEx::apply: the affine map of the six coefficients gt
GeoApply(gt, p) ==
  << QAdd(QAdd(gt[1], QMul(p[1], gt[2])), QMul(p[2], gt[3])),
     QAdd(QAdd(gt[4], QMul(p[1], gt[5])), QMul(p[2], gt[6])) >>

\* x / y for fractions with y # 0 of either sign
QQuot(x, y) ==
  IF y[1] < 0 THEN Q(-(x[1] * y[2]), x[2] * (-y[1]))
  ELSE Q(x[1] * y[2], x[2] * y[1])

QNeg(x) ==
  <<-x[1], x[2]>>

\* gdal::GeoTransformEx::invert (GDALInvGeoTransform): Err, here None, when
\* the determinant is zero
GeoInvert(gt) ==
  LET det == QSub(QMul(gt[2], gt[6]), QMul(gt[3], gt[5]))
  IN IF det = QZero THEN None
     ELSE Some(<< QQuot(QSub(QMul(gt[3], gt[4]), QMul(gt[1], gt[6])), det),
                  QQuot(gt[6], det),
                  QQuot(QNeg(gt[3]), det),
                  QQuot(QSub(QMul(gt[1], gt[5]), QMul(gt[2], gt[4])), det),
                  QQuot(QNeg(gt[5]), det),
                  QQuot(gt[2], det) >>)

\* The geo-transformation of the open chart: 50 metres per pixel, north up,
\* the top-left pixel at (-100, 200)
ChartGeo ==
  <<QInt(-100), QInt(50), QZero, QInt(200), QZero, QInt(-50)>>

\* A geo-transformation with determinant zero
SingularGeo ==
  <<QZero, QInt(2), QInt(1), QZero, QInt(4), QInt(2)>>

\* The chart coordinates the inverse projection can convert.
InProjDomain(c) ==
  \A i \in 1..2 : QLess(QInt(-5001), c[i]) /\ QLess(c[i], QInt(5001))

\* The longitude of the origin of a chart's projection.
Lon0(sr) ==
  IF sr = "lccB" THEN QInt(-96) ELSE QInt(-97)

\* spatial_ref::CoordTransform::transform_coords for the transform from the
\* spatial reference ct[1] to ct[2], Ok(coord) as Some(coord) and Err as
\* None.  An affine stand-in for the Lambert conformal conic projection and
\* its inverse: 100 metres per degree from (Lon0, 32), as transform_coords
\* of the airport worker; the inverse fails outside InProjDomain and the
\* forward projection outside the globe.
ct_transform_coords(ct, c) ==
  IF ct[1] = "nad83"
  THEN IF /\ QLess(QInt(-181), c[1]) /\ QLess(c[1], QInt(181))
          /\ QLess(QInt(-91), c[2]) /\ QLess(c[2], QInt(91))
       THEN Some(<< QMul(QSub(c[1], Lon0(ct[2])), QInt(100)),
                    QMul(QSub(c[2], QInt(32)), QInt(100)) >>)
       ELSE None
  ELSE IF InProjDomain(c)
       THEN Some(<< QAdd(Lon0(ct[1]), QQuot(c[1], QInt(100))),
                    QAdd(QInt(32), QQuot(c[2], QInt(100))) >>)
       ELSE None

\* Transform::new with the transforms built in the other direction.
Transform_new_Swapped(px_size, spatial_ref, geo_transform) ==
  IF GeoInvert(geo_transform) = None THEN None
  ELSE Some([px_size |-> px_size, spatial_ref |-> spatial_ref,
             to_px |-> GeoInvert(geo_transform)[1],
             from_px |-> geo_transform,
             to_nad83 |-> <<spatial_ref, "nad83">>,
             from_nad83 |-> <<spatial_ref, "nad83">>])

\* Transform::new: Err, here None, when the geo-transformation cannot be
\* inverted; a CoordTransform is the pair of its source and target
Transform_new(px_size, spatial_ref, geo_transform) ==
  IF GeoInvert(geo_transform) = None THEN None
  ELSE Some([px_size |-> px_size, spatial_ref |-> spatial_ref,
             to_px |-> GeoInvert(geo_transform)[1],
             from_px |-> geo_transform,
             to_nad83 |-> <<spatial_ref, "nad83">>,
             from_nad83 |-> <<"nad83", spatial_ref>>])

\* Transform::px_to_chart
px_to_chart(t, coord) ==
  GeoApply(t.from_px, coord)

\* Transform::chart_to_px
chart_to_px(t, coord) ==
  GeoApply(t.to_px, coord)

\* Transform::chart_to_nad83
chart_to_nad83(t, coord) ==
  ct_transform_coords(t.to_nad83, coord)

\* Transform::nad83_to_chart
nad83_to_chart(t, coord) ==
  ct_transform_coords(t.from_nad83, coord)

\* reader.transform() of the open chart
ChartTransform ==
  Transform_new(ChartSize, "lccA", ChartGeo)[1]

\* response.inner_rect.min: the top-left corner of the chart area in the
\* window
InnerMin ==
  QPos(1, 1)

\* egui::Rect::contains for the rectangle of the given size at InnerMin
InnerRectContains(size, p) ==
  \A i \in 1..2 :
    /\ ~QLess(p[i], InnerMin[i])
    /\ ~QLess(QAdd(InnerMin[i], QInt(size[i])), p[i])

\* update, lines 682-699: a secondary click at click_pos in a frame whose
\* scroll area reported the offset pos, with the chart at zoom.  The result
\* is what the handler did: menu is the NAD83 coordinate of the select menu
\* it opened (AptInfos::Menu, whose text is format_lat/format_lon of that
\* coordinate), nearby the arguments of the nasr_reader.nearby call it made.
\* The coord handed to nearby is the chart coordinate of line 686: the
\* `coord` bound by `if let Ok(coord)` is in scope only inside that block.
secondary_click(a, zoom, pos, click_pos, spatial_idx) ==
  IF InnerRectContains(a.disp_rect.size, click_pos)
  THEN LET px == << QDiv(QAdd(QSub(click_pos[1], InnerMin[1]), pos[1]), zoom),
                    QDiv(QAdd(QSub(click_pos[2], InnerMin[2]), pos[2]), zoom) >>
           coord == px_to_chart(ChartTransform, px)
           nad83 == chart_to_nad83(ChartTransform, coord)
       IN [inside |-> TRUE, converted |-> nad83 # None,
           menu |-> nad83,
           nearby |-> IF spatial_idx
                      THEN Some(<<coord, QDiv(QInt(926), zoom)>>)
                      ELSE None]
  ELSE [inside |-> FALSE, converted |-> FALSE, menu |-> None, nearby |-> None]

----------------------------------------------------------------------------
(* The zoom arithmetic of the controller as functions of their inputs: one  *)
(* call of get_min_zoom, one zoom gesture or one secondary click, applied   *)
(* to a ChartInfo drawn from bounded sets.  hist records the call: its      *)
(* inputs and, for get_min_zoom and the click, its result.                  *)

\* px_size of the chart, size of the display rectangle, stored zoom
ZoomCharts ==
  {<<1000, 1000>>, <<16, 16>>, <<8, 8>>}

ZoomViews ==
  {<<500, 250>>, <<1, 1>>, <<4, 4>>, <<10, 4>>}

ZoomValues ==
  {QOne, Q(1, 2), Q(3, 4), Q(1, 8)}

\* offsets of the ScrollArea, one of them between two pixels
ZoomOffsets ==
  {QPos(0, 0), QPos(200, 200), <<Q(3, 2), QZero>>}

\* events.zoom_mod and the pointer position relative to the viewport
GestureMods ==
  {Q(1, 10), Q(1, 2), Q(2, 1)}

GestureAnchors ==
  {QPos(0, 0), QPos(2, 2), QPos(100, 100)}

\* The ChartInfo states of ZoomSpec: the offset is one the ScrollArea can
\* report for the content (the chart scaled by zoom).
ZoomStates ==
  {a \in {[AppNew(FALSE) EXCEPT !.chart = "Ready", !.px_size = px,
                                !.disp_rect = RectFrom(pos, size),
                                !.win = size, !.side_panel = FALSE,
                                !.zoom = zoom, !.sa_offset = pos] :
            px \in ZoomCharts, size \in ZoomViews, zoom \in ZoomValues,
            pos \in ZoomOffsets} :
     a.sa_offset = ScrollOffset(a, NoEvent, Some(a.sa_offset), a.disp_rect.size)}

ZoomCall(op, a, mod, anchor, result) ==
  [op |-> op, px_size |-> a.px_size, size |-> a.disp_rect.size, zoom |-> a.zoom,
   pos |-> a.sa_offset, mod |-> mod, anchor |-> anchor, result |-> result]

ZoomInit ==
  /\ reqQ = <<>>
  /\ replyQ = <<>>
  /\ wpc = "none"
  /\ request = None
  /\ read = None
  /\ part = None
  /\ repaintReq = FALSE
  /\ srcState = "open"
  /\ lastReply = None
  /\ app \in ZoomStates
  /\ outbox = <<>>
  /\ cont = None
  /\ apt = AptNew
  /\ hist = ZoomCall("none", app, QOne, QPos(0, 0), QZero)

\* One call of ChartInfo::get_min_zoom.
ZMinZoom ==
  /\ hist.op = "none"
  /\ hist' = ZoomCall("get_min_zoom", app, QOne, QPos(0, 0), get_min_zoom(app))
  /\ UNCHANGED <<wVars, lastReply, appVars>>

\* One zoom gesture with the pointer inside the viewport (update, lines
\* 664-680), in a frame that began with the stored zoom and offset.
ZGesture ==
  /\ hist.op = "none"
  /\ \E mod \in GestureMods, anchor \in GestureAnchors :
       /\ \A i \in 1..2 : QLess(anchor[i], QInt(app.disp_rect.size[i]))
       /\ app' = zoom_gesture(app, app.zoom, app.sa_offset, get_min_zoom(app),
                              mod, anchor)
       /\ hist' = ZoomCall("zoom_gesture", app, mod, anchor, QZero)
  /\ UNCHANGED <<wVars, lastReply, outbox, cont, apt>>

\* events.secondary_click
ClickPositions ==
  {QPos(1, 1), QPos(3, 3), QPos(0, 2), QPos(200, 200)}

\* One secondary click (update, lines 682-699) in a frame that began with
\* the stored zoom and offset; spatial_idx is what
\* nasr_reader.apt_spatial_idx() returns.
ZSecondaryClick ==
  /\ hist.op = "none"
  /\ \E click_pos \in ClickPositions, spatial_idx \in BOOLEAN :
       hist' = ZoomCall("secondary_click", app, QOne, click_pos,
                        [spatial_idx |-> spatial_idx] @@
                        secondary_click(app, app.zoom, app.sa_offset,
                                        click_pos, spatial_idx))
  /\ UNCHANGED <<wVars, lastReply, appVars>>

\* One call of App::toggle_side_panel; the result records the argument and
\* the visibility the panel had.
ZTogglePanel ==
  /\ hist.op = "none"
  /\ \E visible \in BOOLEAN :
       /\ app' = toggle_side_panel(app, visible)
       /\ hist' = ZoomCall("toggle_side_panel", app, QOne, QPos(0, 0),
                           [visible |-> visible, was |-> app.side_panel])
  /\ UNCHANGED <<wVars, lastReply, outbox, cont, apt>>

ZoomNext ==
  \/ ZMinZoom
  \/ ZGesture
  \/ ZSecondaryClick
  \/ ZTogglePanel

ZoomSpec ==
  ZoomInit /\ [][ZoomNext]_vars

\* toggle_side_panel was called with the visibility the panel already had.
ToggledSame ==
  /\ hist.op = "toggle_side_panel"
  /\ hist.result.visible = hist.result.was

\* C35: toggle_side_panel called with the visibility the panel already has
\* leaves the scroll offset of the chart unchanged: no scroll is pending, or
\* the pending one is the offset on display.
C35_ToggleIdempotent ==
  ToggledSame =>
    \/ app.scroll = None
    \/ app.scroll[1] = QPos(app.disp_rect.pos[1], app.disp_rect.pos[2])

\* Escape with the side panel closed (toggle_side_panel(false)) has left a
\* pending scroll to the left of the offset on display.
C35_EscapeShiftsChart ==
  /\ ToggledSame
  /\ ~hist.result.visible
  /\ app.disp_rect.pos[1] > 0
  /\ app.scroll = Some(QPos(app.disp_rect.pos[1] - (app.side_panel_width + 1),
                            app.disp_rect.pos[2]))

----------------------------------------------------------------------------
(* NasrSpec: the APTSource through its API, and its worker thread *)

\* messages a client of APTSource sends before dropping it in NasrSpec
MaxAptRequests ==
  3

AirportIds ==
  {<<"a", "b">>, <<"X", "Y">>}

\* (coord, dist): dist is an f64, carried as an exact fraction
NearbyArgs ==
  {<<<<0, 0>>, QInt(100)>>, <<<<0, 0>>, Q(99999, 1000)>>,
   <<<<0, 0>>, QInt(101)>>}

SearchTerms ==
  {<<"a", "l">>, <<"C", "D">>}

\* History of NasrSpec (not program state): every message in the order of
\* its send call, and every reply in the order the worker sent it, with the
\* number of the request it answers, the transform the worker held and the
\* state of the APTSource ("joining" once Exit has been sent).
HistNasr ==
  [submitted |-> <<>>, answered |-> <<>>]

\* A message as it travels: the APTRequest value and, as `n`, the number of
\* the send call that submitted it.
AptMsg(type, arg) ==
  [type |-> type, arg |-> arg, n |-> Len(hist.submitted) + 1]

\* self.sender.send(msg).unwrap()
AptSend(msg) ==
  /\ apt' = [apt EXCEPT !.sender = Append(@, msg)]
  /\ hist' = [hist EXCEPT !.submitted = Append(@, msg)]
  /\ UNCHANGED <<wVars, lastReply, app, outbox, cont>>

AptClientReady ==
  /\ apt.state = "open"
  /\ Len(hist.submitted) < MaxAptRequests

\* APTSource::set_spatial_ref
ASetSpatialRef ==
  /\ AptClientReady
  /\ \E proj4 \in Proj4Texts : AptSend(AptMsg("SpatialRef", proj4))

\* APTSource::airport
AAirport ==
  /\ AptClientReady
  /\ \E id \in AirportIds : AptSend(AptMsg("Airport", id))

\* APTSource::nearby
ANearby ==
  /\ AptClientReady
  /\ \E arg \in NearbyArgs : AptSend(AptMsg("Nearby", arg))

\* APTSource::search
ASearch ==
  /\ AptClientReady
  /\ \E term \in SearchTerms : AptSend(AptMsg("Search", term))

\* APTSource::get_next_reply returning Some
AGetNextReply ==
  /\ apt.state = "open"
  /\ apt.receiver # <<>>
  /\ apt' = [apt EXCEPT !.receiver = Tail(@), !.repaint = FALSE]
  /\ UNCHANGED <<wVars, lastReply, app, outbox, cont, hist>>

\* Drop for APTSource, first half: send Exit, then wait in join.
ADrop ==
  /\ apt.state = "open"
  /\ apt' = [apt EXCEPT !.sender = Append(@, AptMsg("Exit", <<>>)),
                        !.state = "joining"]
  /\ hist' = [hist EXCEPT !.submitted = Append(@, AptMsg("Exit", <<>>))]
  /\ UNCHANGED <<wVars, lastReply, app, outbox, cont>>

\* Drop for APTSource, second half: join returns once the thread has ended.
AJoin ==
  /\ apt.state = "joining"
  /\ apt.pc = "done"
  /\ apt' = [apt EXCEPT !.state = "dropped"]
  /\ UNCHANGED <<wVars, lastReply, app, outbox, cont, hist>>

\* Worker: thread_receiver.recv() returns.
ARecv ==
  /\ apt.pc = "recv"
  /\ apt.sender # <<>>
  /\ LET r == recv(apt.sender)
     IN apt' = [apt EXCEPT !.sender = r.rest, !.request = Some(r.msg),
                           !.pc = "match"]
  /\ UNCHANGED <<wVars, lastReply, app, outbox, cont, hist>>

\* thread_sender.send(APTReply::Airport(airports)) for the request in hand
AptReply(airports) ==
  LET rq == apt.request[1]
      reply == [type |-> "Airport", airports |-> airports, of |-> rq.n]
  IN /\ apt' = [apt EXCEPT !.receiver = Append(@, reply), !.request = None,
                           !.pc = "repaint"]
     /\ hist' = [hist EXCEPT !.answered =
                   Append(@, [of |-> rq.n, reply |-> reply,
                              transform |-> apt.transform,
                              state |-> apt.state])]

\* Worker: the arm of the match for the request in hand.
AMatch ==
  /\ apt.pc = "match"
  /\ LET rq == apt.request[1]
     IN CASE rq.type = "SpatialRef" ->
               /\ apt' = [apt EXCEPT
                            !.transform = set_transform(@, rq.arg),
                            !.request = None, !.pc = "recv"]
               /\ hist' = hist
          [] rq.type = "Airport" -> AptReply(airport_by_id(rq.arg))
          [] rq.type = "Nearby" ->
               AptReply(nearby_airports(apt.transform, rq.arg[1], rq.arg[2]))
          [] rq.type = "Search" -> AptReply(search_airports(rq.arg))
          [] rq.type = "Exit" ->
               /\ apt' = [apt EXCEPT !.request = None, !.pc = "done"]
               /\ hist' = hist
  /\ UNCHANGED <<wVars, lastReply, app, outbox, cont>>

\* Worker: repaint() after a reply was sent.
ARepaint ==
  /\ apt.pc = "repaint"
  /\ apt' = [apt EXCEPT !.repaint = TRUE, !.pc = "recv"]
  /\ UNCHANGED <<wVars, lastReply, app, outbox, cont, hist>>

NasrInit ==
  /\ reqQ = <<>>
  /\ replyQ = <<>>
  /\ wpc = "none"
  /\ request = None
  /\ read = None
  /\ part = None
  /\ repaintReq = FALSE
  /\ srcState = "none"
  /\ lastReply = None
  /\ app = AppNew(FALSE)
  /\ outbox = <<>>
  /\ cont = None
  /\ apt = AptNew
  /\ hist = HistNasr

NasrNext ==
  \/ ASetSpatialRef
  \/ AAirport
  \/ ANearby
  \/ ASearch
  \/ AGetNextReply
  \/ ADrop
  \/ AJoin
  \/ ARecv
  \/ AMatch
  \/ ARepaint

NasrSpec ==
  NasrInit /\ [][NasrNext]_vars

----------------------------------------------------------------------------
(* MenuSpec: the frames of a session with a chart and an airport database   *)
(* open: secondary clicks, the find dialog, the replies of the airport      *)
(* reader, the popup and the airport selection dialog.                      *)

\* user events (clicks, keys, buttons, resizes) of a behaviour in MenuSpec
MaxMenuEvents ==
  3

\* (coord, dist) of the nearby call of a click: one with airports in reach,
\* one with none
MenuNear ==
  <<<<0, 0>>, QInt(101)>>

MenuNearbyArgs ==
  {MenuNear, <<<<5000, 5000>>, QInt(100)>>}

MenuEvents(a) ==
  {[NoEvent EXCEPT !.event = e] : e \in {"escape", "find", "zoom_minus", "zoom_plus"}}
  \cup {[NoEvent EXCEPT !.event = "resize", !.win = w] : w \in ViewWins \ {a.win}}
  \cup {[NoEvent EXCEPT !.event = "click"]}

\* The input of a frame in MenuSpec: one user event at most, every reply the
\* airport reader has queued, and what the dialogs return; a dialog or popup
\* returns a response only if it was on show when the frame began.
MenuInputs(a) ==
  UNION {
    {[Input(e, NoDialogs) EXCEPT
        !.apt_loaded = TRUE, !.spatial_idx = TRUE, !.nasr = apt.receiver,
        !.inside = TRUE, !.converted = c.converted, !.apt_arg = c.arg,
        !.term = c.term,
        !.coord = c.coord, !.apt_dlg = c.apt_dlg, !.find = c.find,
        !.menu = c.menu] :
       c \in {x \in [converted : BOOLEAN,
                      arg : MenuNearbyArgs, term : SearchTerms,
                      coord : GotoCoords,
                      apt_dlg : {"none", "index", "cancel"},
                      find : {"none", "cancel", "term"},
                      menu : {"none", "close"}] :
              /\ e.event # "click" => x.converted /\ x.arg = MenuNear
              /\ x.find # "term" => x.term = <<"a", "l">>
              /\ x.find # "none" => a.find_dlg
              /\ x.apt_dlg # "none" => a.apt_infos.kind = "Dialog"
              /\ x.menu # "none" => a.apt_infos.kind = "Menu"}} :
    e \in MenuEvents(a) \cup {NoEvent}}

MenuInit ==
  /\ reqQ = <<>>
  /\ replyQ = <<>>
  /\ wpc = "recv"
  /\ request = None
  /\ read = None
  /\ part = None
  /\ repaintReq = FALSE
  /\ srcState = "open"
  /\ lastReply = None
  /\ \E win \in ViewWins :
       \E f \in {OpenFrame(FALSE, win)} :
          /\ app = [f EXCEPT !.out = <<>>, !.repaint = FALSE, !.opened = FALSE]
          /\ outbox = f.out
  /\ cont = None
  /\ apt = [AptNew EXCEPT !.transform = Some("lccA")]
  /\ hist = HistApp

\* App::update with a chart and the airport database open.
MenuFrame ==
  /\ cont = None
  /\ outbox = <<>>
  /\ ~app.panicked
  /\ Len(reqQ) < MaxQueue
  /\ \E in \in MenuInputs(app) :
       /\ in.event # "none" => app.nEvents < MaxMenuEvents
       /\ FrameEnd([FrameBegin(app, replyQ, in) EXCEPT !.h_woken = repaintReq],
                   in, <<>>, FALSE)

\* One turn of the worker loop of the airport reader (nasr.rs): it takes the
\* oldest request and sends the reply; the reply keeps the `click` of the
\* request (history).
MenuServe ==
  /\ apt.sender # <<>>
  /\ LET rq == Head(apt.sender)
         airports == IF rq.type = "Nearby"
                       THEN nearby_airports(apt.transform, rq.arg[1], rq.arg[2])
                       ELSE search_airports(rq.arg)
     IN apt' = [apt EXCEPT !.sender = Tail(@),
                           !.receiver = Append(@, [type |-> rq.type,
                                                   click |-> rq.click,
                                                   airports |-> airports])]
  /\ app' = ForgetFrame(app)
  /\ UNCHANGED <<wVars, lastReply, outbox, cont, hist>>

MenuNext ==
  \/ MenuFrame
  \/ Deliver
  \/ ViewServe
  \/ MenuServe

MenuSpec ==
  MenuInit /\ [][MenuNext]_vars

\* C33: the airport list of the secondary-click popup comes from the Nearby
\* query of the click that opened the popup: a list installed in the popup
\* is the answer to the query of that click, never to that of an earlier one.
C33_PopupListFromItsClick ==
  (app.apt_infos.kind = "Menu" /\ app.apt_infos.list # None)
    => app.apt_infos.list[1].of = app.apt_infos.click

\* The popup of the second click shows the airports found for the first
\* click, and the reader has nothing left to send.
C33_StaleList ==
  /\ app.apt_infos.kind = "Menu"
  /\ app.apt_infos.click = 2
  /\ app.apt_infos.list # None
  /\ app.apt_infos.list[1].of = 1
  /\ apt.sender = <<>>
  /\ apt.receiver = <<>>

\* A modal dialog is open: the file dialog, the chart selection dialog, the
\* airport selection dialog, the find dialog or the error dialog.
ModalOpen ==
  \/ app.file_dlg
  \/ app.chart = "Load"
  \/ app.apt_infos.kind = "Dialog"
  \/ app.find_dlg
  \/ app.error_dlg

\* C34: at the end of every frame ui_enabled is false if and only if a modal
\* dialog is open.
C34_DisabledIffModal ==
  app.h_dlg.done => (~app.ui_enabled <=> ModalOpen)

\* A frame in which the window was resized has ended with the UI disabled and
\* no dialog open to dismiss.
C34_DisabledNoDialog ==
  /\ app.h_dlg.done
  /\ app.h_frame.event = "resize"
  /\ ~app.ui_enabled
  /\ ~ModalOpen
  /\ ~app.panicked

\* A frame has ended with the UI enabled and the airport selection dialog
\* on show.
C34_EnabledUnderDialog ==
  /\ app.h_dlg.done
  /\ app.ui_enabled
  /\ app.apt_infos.kind = "Dialog"

\* C36: whenever the stored zoom or the display rectangle of the chart takes
\* a new value, the airport choices are None afterwards (a frame whose
\* secondary click opens the popup after the change is left out).
C36_ResetOnChange ==
  [][(/\ app.chart = "Ready"
      /\ app'.chart = "Ready"
      /\ app'.zoom # app.zoom \/ app'.disp_rect # app.disp_rect
      /\ app'.h_frame.event # "click")
     => app'.apt_infos.kind = "None"]_vars

\* The frame of a zoom-out button click that lowered the zoom (the zoom the
\* central panel began with is above the minimum, so the button acted) has
\* ended with the popup of an earlier click still open.
C36_MenuKeptOverZoom ==
  /\ app.h_dlg.done
  /\ app.h_frame.event = "zoom_minus"
  /\ QLess(app.h_frame.min_zoom, app.h_frame.zoom0)
  /\ app.ui_enabled
  /\ app.apt_infos.kind = "Menu"

----------------------------------------------------------------------------
(* OpenSpec: Source::_open and Data::new as functions of the dataset found  *)
(* in the zip file.  hist records the dataset and the result of the call.   *)

\* The PROJ4 text of a spatial reference, as the sequence of its items.
Proj4Lcc ==
  <<"+proj=lcc", "+datum=NAD83", "+units=m">>

Proj4Items ==
  { Proj4Lcc,
    <<"+proj=merc", "+datum=NAD83", "+units=m">>,
    <<"+proj=lcc", "+datum=WGS84", "+units=m">>,
    <<"+proj=lcc", "+datum=NAD83", "+units=us-ft">> }

\* str::to_lowercase on one item of a PROJ4 text
LowerItem(t) ==
  CASE t = "+datum=NAD83" -> "+datum=nad83"
    [] t = "+datum=WGS84" -> "+datum=wgs84"
    [] OTHER -> t

\* proj4.to_lowercase().contains(item): the items of the texts above do not
\* overlap, so that the text contains `item` iff it is one of its items.
Proj4Contains(proj4, item) ==
  \E i \in 1..Len(proj4) : LowerItem(proj4[i]) = item

\* static ITEMS of Data::new
ITEMS ==
  <<"+proj=lcc", "+datum=nad83", "+units=m">>

\* What gdal reports for the file: whether open_ex succeeds, whether
\* spatial_ref() succeeds, the PROJ4 text (None when to_proj4 fails), the
\* geo-transformation (None when geo_transform() fails; SingularGeo cannot
\* be inverted), the raster size, and the PaletteIndex band:
\* "ok", "none" (no such band), "notable" (no color table), "short" (not 256
\* entries) or "badcolor" (an entry that check_color rejects).
Datasets ==
  [opens : BOOLEAN, sr : BOOLEAN, proj4 : {None} \cup {Some(p) : p \in Proj4Items},
   geo : {None, Some(ChartGeo), Some(SingularGeo)},
   size : {<<0, 0>>, <<0, 4>>, <<8, 0>>, <<8, 4>>},
   band : {"ok", "none", "notable", "short", "badcolor"}]

\* util::Size::is_valid
is_valid(size) ==
  size[1] > 0 /\ size[2] > 0

SourceOk ==
  [ok |-> TRUE, err |-> "none"]

SourceErr(e) ==
  [ok |-> FALSE, err |-> e]

\* Data::new that checks the raster size before the spatial reference.
Data_new_SizeFirst(d) ==
  IF ~d.opens THEN SourceErr("GdalError")
  ELSE IF ~is_valid(d.size) THEN SourceErr("InvalidPixelSize")
  ELSE IF ~d.sr \/ d.proj4 = None THEN SourceErr("GdalError")
  ELSE IF \E i \in 1..Len(ITEMS) : ~Proj4Contains(d.proj4[1], ITEMS[i])
    THEN SourceErr("InvalidSpatialReference")
  ELSE IF d.geo = None THEN SourceErr("GdalError")
  ELSE IF Transform_new(d.size, d.proj4[1], d.geo[1]) = None
    THEN SourceErr("GdalError")
  ELSE CASE d.band = "ok" -> SourceOk
         [] d.band = "none" -> SourceErr("RasterNotFound")
         [] d.band = "notable" -> SourceErr("ColorTableNotFound")
         [] OTHER -> SourceErr("InvalidColorTable")

\* Data::new
Data_new(d) ==
  IF ~d.opens THEN SourceErr("GdalError")
  ELSE IF ~d.sr \/ d.proj4 = None THEN SourceErr("GdalError")
  ELSE IF \E i \in 1..Len(ITEMS) : ~Proj4Contains(d.proj4[1], ITEMS[i])
    THEN SourceErr("InvalidSpatialReference")
  ELSE IF d.geo = None THEN SourceErr("GdalError")
  ELSE IF ~is_valid(d.size) THEN SourceErr("InvalidPixelSize")
  ELSE IF Transform_new(d.size, d.proj4[1], d.geo[1]) = None
    THEN SourceErr("GdalError")
  ELSE CASE d.band = "ok" -> SourceOk
         [] d.band = "none" -> SourceErr("RasterNotFound")
         [] d.band = "notable" -> SourceErr("ColorTableNotFound")
         [] OTHER -> SourceErr("InvalidColorTable")

OpenInit ==
  /\ reqQ = <<>>
  /\ replyQ = <<>>
  /\ wpc = "none"
  /\ request = None
  /\ read = None
  /\ part = None
  /\ repaintReq = FALSE
  /\ srcState = "none"
  /\ lastReply = None
  /\ app = AppNew(FALSE)
  /\ outbox = <<>>
  /\ cont = None
  /\ apt = AptNew
  /\ \E d \in Datasets : hist = [op |-> "none", dataset |-> d, result |-> SourceOk]

\* Source::_open: `Data::new(path)?` returns the error before the channels
\* and the thread are created; on Ok the thread is spawned and waits in recv.
SourceOpen ==
  /\ hist.op = "none"
  /\ LET r == Data_new(hist.dataset)
     IN /\ hist' = [hist EXCEPT !.op = "open", !.result = r]
        /\ srcState' = IF r.ok THEN "open" ELSE srcState
        /\ wpc' = IF r.ok THEN "recv" ELSE wpc
  /\ UNCHANGED <<reqQ, replyQ, request, read, part, repaintReq, lastReply,
                 appVars>>

OpenNext ==
  SourceOpen

OpenSpec ==
  OpenInit /\ [][OpenNext]_vars

----------------------------------------------------------------------------
(* TransformSpec: the conversions of chart::Transform as functions of their *)
(* inputs.  hist records the transform's parameters, the coordinate and the *)
(* result of one round trip.                                                *)

\* A geo-transformation with rotation terms
RotatedGeo ==
  <<QInt(10), QInt(3), QInt(1), QInt(-20), QInt(2), QInt(-4)>>

GeoTransforms ==
  {ChartGeo, RotatedGeo, SingularGeo}

SpatialRefs ==
  {"lccA", "lccB"}

\* Pixel coordinates inside the bounds of a chart of ChartSize
PxCoords ==
  {<<x, y>> : x \in {QZero, Q(1, 2), QInt(3), QInt(7)},
              y \in {QZero, Q(5, 2), QInt(7)}}

\* Chart coordinates; the last is outside the domain of the projection
ChartCoords ==
  {QPos(-100, 200), QPos(0, 0), <<Q(301, 2), QInt(-50)>>, QPos(6000, 0)}

TransformInit ==
  /\ reqQ = <<>>
  /\ replyQ = <<>>
  /\ wpc = "none"
  /\ request = None
  /\ read = None
  /\ part = None
  /\ repaintReq = FALSE
  /\ srcState = "none"
  /\ lastReply = None
  /\ app = AppNew(FALSE)
  /\ outbox = <<>>
  /\ cont = None
  /\ apt = AptNew
  /\ \E sr \in SpatialRefs, gt \in GeoTransforms, p \in PxCoords,
        x \in ChartCoords :
       hist = [op |-> "none", sr |-> sr, gt |-> gt, p |-> p, x |-> x,
               mid |-> None, result |-> None]

\* Transform::new for the parameters of the behaviour
HistTransform ==
  Transform_new(ChartSize, hist.sr, hist.gt)

\* chart_to_px(px_to_chart(p))
TPxRoundTrip ==
  /\ hist.op = "none"
  /\ HistTransform # None
  /\ LET t == HistTransform[1]
         mid == px_to_chart(t, hist.p)
     IN hist' = [hist EXCEPT !.op = "px", !.mid = Some(mid),
                             !.result = Some(chart_to_px(t, mid))]
  /\ UNCHANGED <<wVars, lastReply, appVars>>

\* nad83_to_chart(chart_to_nad83(x)?): the second call is made only when the
\* first returned Ok
TNad83RoundTrip ==
  /\ hist.op = "none"
  /\ HistTransform # None
  /\ LET t == HistTransform[1]
         mid == chart_to_nad83(t, hist.x)
     IN hist' = [hist EXCEPT !.op = "nad83", !.mid = mid,
                             !.result = IF mid = None THEN None
                                        ELSE nad83_to_chart(t, mid[1])]
  /\ UNCHANGED <<wVars, lastReply, appVars>>

TransformNext ==
  \/ TPxRoundTrip
  \/ TNad83RoundTrip

TransformSpec ==
  TransformInit /\ [][TransformNext]_vars

----------------------------------------------------------------------------
(* Claims about the chart worker, checked under Spec and FairSpec *)

Front(q) ==
  SubSeq(q, 1, Len(q) - 1)

Last(q) ==
  q[Len(q)]

IsPrefix(p, q) ==
  /\ Len(p) <= Len(q)
  /\ SubSeq(q, 1, Len(p)) = p

CanceledOf(sent) ==
  SelectSeq(sent, LAMBDA r : r.kind = "Canceled")

RECURSIVE PartsOf(_)
PartsOf(sent) ==
  IF sent = <<>> THEN <<>> ELSE <<Head(sent).part[1]>> \o PartsOf(Tail(sent))

\* C1 as stated: when a drain is over (the worker is back at its blocking
\* receive or has returned), every Read taken in it was either decoded or
\* reported as Canceled, each reply carrying the Read's ImagePart.
C1_EveryTakenReadAnswered ==
  wpc \in {"recv", "done"} => PartsOf(hist.drainSent) = hist.drainTaken

\* C1 amended: in every drain the worker keeps only the last Read seen, and
\* every Read followed by another Read in the same drain is reported as
\* Canceled with its own ImagePart, in the order taken; the Read still kept
\* when the drain meets Exit is dropped without any reply.
C1_DrainKeepsLast ==
  hist.drainTaken # <<>> =>
    /\ PartsOf(CanceledOf(hist.drainSent)) = Front(hist.drainTaken)
    /\ wpc \in {"match", "try", "taken", "done"} => read = Some(Last(hist.drainTaken))
    /\ wpc \in {"reading", "repaint"} => part = Some(Last(hist.drainTaken))
    /\ wpc = "done" => hist.drainSent = CanceledOf(hist.drainSent)

C1_Witness ==
  /\ wpc = "reading"
  /\ Len(hist.drainTaken) >= 2
  /\ Len(CanceledOf(hist.drainSent)) >= 1

\* C2: when Reads R1..Rn are queued at the blocking receive (no Exit among
\* them), all of them are taken in that drain; the replies of the drain are
\* Canceled for every Read taken but the last, in the order taken, followed by
\* exactly one Image or GdalError for the last one; with nothing submitted
\* during the drain that is n-1 Canceled replies for R1..Rn-1 and one decode
\* reply for Rn.
C2_Coalescing ==
  wpc = "repaint" =>
    LET t == hist.drainTaken
        s == hist.drainSent
        n == Len(t)
    IN /\ n >= 1
       /\ ~hist.exitAtRecv => IsPrefix(hist.atRecv, t)
       /\ Len(s) = n
       /\ \A i \in 1..(n - 1) : s[i] = Reply("Canceled", Some(t[i]))
       /\ s[n].kind \in {"Image", "GdalError"}
       /\ s[n].part = Some(t[n])

C2_Witness ==
  /\ wpc = "repaint"
  /\ Len(hist.atRecv) = 3
  /\ hist.drainTaken = hist.atRecv
  /\ Len(CanceledOf(hist.drainSent)) = 2

\* C3: while data.read runs on part P the worker takes nothing from its
\* request queue (requests arriving meanwhile stay queued), and the step that
\* ends the decode sends Image(P) or GdalError(P), never Canceled(P).
C3_NoPreemption ==
  [][wpc = "reading" =>
       /\ IsPrefix(reqQ, reqQ')
       /\ wpc' = "reading" => hist'.drainSent = hist.drainSent
       /\ wpc' # "reading" =>
            \E kind \in {"Image", "GdalError"} :
              hist'.drainSent = Append(hist.drainSent, Reply(kind, part))]_vars

C3_Witness ==
  /\ wpc = "repaint"
  /\ HasExit(reqQ)
  /\ \E i \in 1..Len(reqQ) : reqQ[i].type = "Read"

\* C4 as stated: no reply is sent once Exit has been sent.
C4_NoReplyAfterExitSent ==
  hist.afterExit = 0

\* C4 amended: no reply is sent after the worker has taken Exit from its
\* queue, and once Exit has been sent the worker thread terminates; between
\* the send and the take the worker may still send the reply of a decode in
\* progress and the replies for Reads queued ahead of Exit.
C4_Shutdown ==
  /\ [](hist.afterSeen = 0)
  /\ (hist.nExits > 0) ~> (wpc = "done")

C4_Witness ==
  /\ wpc = "done"
  /\ hist.afterExit > 0

\* C5: Exit is sent at most once and exactly when the Source is being
\* dropped; drop returns only after the worker has taken Exit and returned,
\* and no data.read starts after drop has returned.
C5_ExitOnceAndJoined ==
  /\ hist.nExits <= 1
  /\ (hist.nExits = 1) <=> (srcState \in {"joining", "dropped"})
  /\ HasExit(reqQ) => srcState = "joining"
  /\ srcState = "dropped" => (wpc = "done" /\ hist.exitSeen)
  /\ hist.lateDecode = 0

C5_Witness ==
  /\ srcState = "dropped"
  /\ hist.nSent >= 2

\* C6: a GdalError reply never ends the worker: the thread returns only on
\* Exit, and after an error it goes on serving, so that it ends (on Exit) or
\* reaches its blocking receive with an empty queue and one reply sent for
\* every Read submitted.
C6_ErrorKeepsWorker ==
  /\ [](wpc = "done" => hist.exitSeen)
  /\ hist.erred ~> \/ wpc = "done"
                   \/ (wpc = "recv" /\ reqQ = <<>> /\ hist.nSent = hist.nReads)

C6_Witness ==
  /\ hist.erred
  /\ wpc = "repaint"
  /\ Last(hist.drainSent).kind = "Image"

\* C9 as stated: whenever the worker is at its blocking receive or has
\* returned, every reply it has sent was followed by a repaint request.
C9_RepaintAfterEveryReply ==
  wpc \in {"recv", "done"} => hist.unrepainted = 0

\* C9 amended: every reply sent is followed by a repaint request before the
\* worker next blocks on its queue; when the worker returns on Exit, the
\* replies not followed by a repaint are Canceled replies of that last drain.
C9_RepaintBeforeBlocking ==
  /\ wpc = "recv" => hist.unrepainted = 0
  /\ wpc = "repaint" => hist.unrepainted >= 1
  /\ wpc = "done" =>
       /\ hist.unrepainted = Len(hist.drainSent)
       /\ hist.drainSent = CanceledOf(hist.drainSent)

C9_Witness ==
  /\ wpc = "recv"
  /\ repaintReq
  /\ Len(CanceledOf(hist.drainSent)) >= 1

----------------------------------------------------------------------------
(* Claims about the controller and its frames, checked under AppSpec *)

\* C7 as stated: a part whose GdalError reply the controller has handled is
\* not submitted again by any frame until a frame carries user input (scroll,
\* zoom, resize, day/night toggle, ...).
C7_NoAutomaticRetry ==
  ~app.h_input =>
    \A i \in 1..Len(app.h_frame.sent) :
      app.h_frame.sent[i].part[1] \notin app.h_failed

\* The retry the code makes: with an image on display, a frame that carries
\* no user input, started by the repaint request that follows the GdalError
\* reply, submits the part that has just failed (update, lines 651-652).
C7_RetryAfterError ==
  /\ ~app.h_input
  /\ app.h_woken
  /\ app.h_frame.ready
  /\ app.h_frame.image # None
  /\ app.h_frame.sent # <<>>
  /\ \A i \in 1..Len(app.h_frame.sent) :
       app.h_frame.sent[i].part[1] \in app.h_failed

\* C8 as stated: no frame ever waits for the worker: whenever a frame is
\* inside a call that depends on the worker thread, the call returns at once.
C8_FrameNeverWaits ==
  cont # None => wpc = "done"

\* C8 amended: polling the replies never makes a frame wait, whatever the
\* worker is doing; the only place where a frame waits for the worker is
\* Source::drop, entered when the file dialog replaces the open chart: Exit
\* has been sent once to that chart's worker and the frame goes on when the
\* worker has finished the decode in progress and returned.
C8_OnlyTeardownWaits ==
  /\ cont # None =>
       /\ srcState = "joining"
       /\ hist.nExits = 1
       /\ app.file_dlg
       /\ app.chart = "Ready"
       /\ cont[1].file \in {"one", "many"}
  /\ srcState = "joining" => cont # None

C8_Witness ==
  /\ cont # None
  /\ wpc = "reading"

\* The other half of C8's case: a frame has just run to its end while the
\* worker is in the middle of a decode.
C8_FrameDuringDecode ==
  /\ cont = None
  /\ app.h_frame.ready
  /\ wpc = "reading"

FrameMismatch(f) ==
  f.image[1].rect # f.rect \/ f.image[1].zoom # f.zoom

\* C10 as stated: a frame in Ready with an image submits a request iff the
\* display rectangle or the clamped zoom differs from the image's part, and
\* then exactly the request for the display rectangle at the clamped zoom with
\* the current flag.
C10_RequestIffMismatch ==
  LET f == app.h_frame
  IN (f.ready /\ f.image # None) =>
       /\ (f.sent # <<>>) <=> FrameMismatch(f)
       /\ FrameMismatch(f) => f.sent = <<ReqRead(ImagePart(f.rect, f.zoom, f.dark))>>

\* C10 amended: apart from the re-request a day/night toggle of the same frame
\* makes (for the image's own rectangle and zoom, with the new flag), a frame
\* in Ready with an image submits a request iff the display rectangle or the
\* clamped zoom differs from the image's part; that request is for the display
\* rectangle at the clamped zoom with the current flag.
C10_FrameRequest ==
  LET f == app.h_frame
  IN (f.ready /\ f.image # None) =>
       f.sent =
         (IF f.toggled
            THEN <<ReqRead(ImagePart(f.image[1].rect, f.image[1].zoom, f.dark))>>
            ELSE <<>>)
         \o (IF FrameMismatch(f)
               THEN <<ReqRead(ImagePart(f.rect, f.zoom, f.dark))>>
               ELSE <<>>)

C10_Witness ==
  LET f == app.h_frame
  IN /\ f.ready
     /\ f.image # None
     /\ f.image[1].rect = f.rect
     /\ f.image[1].zoom # f.zoom
     /\ f.sent = <<ReqRead(ImagePart(f.rect, f.zoom, f.dark))>>

\* C11 as stated: in Ready, every frame in which no image has been decoded
\* yet submits a tile request for the visible rectangle at the clamped zoom.
C11_RequestEveryFrameWithoutImage ==
  LET f == app.h_frame
  IN (f.ready /\ f.image = None) =>
       f.sent = <<ReqRead(ImagePart(f.rect, f.zoom, f.dark))>>

\* C11 amended: in Ready, a frame in which no image has been decoded yet
\* submits a tile request exactly when a pending scroll offset seeds that
\* frame and the zoom is 1.0, and then one request, for the visible
\* rectangle at zoom 1.0 with the current flag; every other frame without an
\* image submits nothing.
C11_InitialRequest ==
  LET f == app.h_frame
  IN (f.ready /\ f.image = None) =>
       f.sent = (IF f.seeded /\ f.zoom0 = QOne
                   THEN <<ReqRead(ImagePart(f.rect, QOne, f.dark))>>
                   ELSE <<>>)

\* A frame without an image that was not seeded or not at zoom 1.0 and
\* submitted nothing, while no request is outstanding and no reply queued.
C11_StaysWithoutRequest ==
  LET f == app.h_frame
  IN /\ f.ready
     /\ f.image = None
     /\ f.sent = <<>>
     /\ reqQ = <<>>
     /\ replyQ = <<>>
     /\ wpc = "recv"

\* A seeded frame without an image that submitted the initial request.
C11_Witness ==
  LET f == app.h_frame
  IN /\ f.ready
     /\ f.image = None
     /\ f.seeded
     /\ f.sent = <<ReqRead(ImagePart(f.rect, QOne, f.dark))>>

----------------------------------------------------------------------------
(* Claims about the viewport of an open chart, checked under ViewSpec *)

\* C12 as stated: at the end of every frame in Ready the stored zoom is at
\* least the minimum zoom computed for the current display rectangle and at
\* most 1.0.
C12_ZoomWithinBounds ==
  (app.h_frame.ready /\ ~app.panicked) =>
    /\ ~QLess(app.zoom, get_min_zoom(app))
    /\ ~QLess(QOne, app.zoom)

\* The frame ended with an image on display and a stored zoom above 1.0: the
\* viewport is larger than the chart, get_min_zoom is above 1.0 and
\* zoom.max(min_zoom) was stored (update, lines 648-657).
C12_ZoomAboveOne ==
  /\ app.h_frame.ready
  /\ ~app.panicked
  /\ app.image # None
  /\ QLess(QOne, app.zoom)
  /\ app.zoom = get_min_zoom(app)

\* The frame ended with a stored zoom below the minimum zoom of its display
\* rectangle, that minimum being at most 1.0: no image has been decoded, so
\* nothing clamped the zoom.
C12_ZoomBelowMin ==
  /\ app.h_frame.ready
  /\ app.image = None
  /\ QLess(app.zoom, get_min_zoom(app))
  /\ ~QLess(QOne, get_min_zoom(app))

\* A zoom gesture panicked in f32::clamp(min_zoom, 1.0) with min_zoom > 1.0.
C12_ClampPanics ==
  /\ app.panicked
  /\ QLess(QOne, app.h_frame.min_zoom)

----------------------------------------------------------------------------
(* Claims about the zoom arithmetic, checked under ZoomSpec *)

\* The larger of viewportWidth/chartWidth and viewportHeight/chartHeight.
LargerRatio(px_size, size) ==
  LET rw == Q(size[1], px_size[1])
      rh == Q(size[2], px_size[2])
  IN IF QLess(rw, rh) THEN rh ELSE rw

\* C13 as stated: for every chart size and viewport size the minimum zoom is
\* the larger of viewportWidth/chartWidth and viewportHeight/chartHeight; a
\* zoom gesture whose product old_zoom * delta is below the minimum results
\* in the minimum zoom, and one whose product is above 1.0 results in 1.0.
C13_MinZoomIsLargerRatio ==
  LET min_zoom == LargerRatio(hist.px_size, hist.size)
      product == QMul(hist.zoom, hist.mod)
  IN /\ hist.op = "get_min_zoom" => hist.result = min_zoom
     /\ hist.op = "zoom_gesture" =>
          /\ QLess(product, min_zoom) => (~app.panicked /\ app.zoom = min_zoom)
          /\ QLess(QOne, product) => (~app.panicked /\ app.zoom = QOne)

\* C13 amended: the minimum zoom is the largest of viewportWidth/chartWidth,
\* viewportHeight/chartHeight and 1/8.  While that minimum is at most 1.0, a
\* zoom gesture whose product old_zoom * delta is below the minimum results in
\* the minimum zoom, one whose product is above 1.0 results in 1.0, and any
\* other product is stored as it is; when the minimum is above 1.0, a gesture
\* whose product differs from the old zoom panics and stores nothing.
C13_MinZoomAndClamp ==
  LET ratio == LargerRatio(hist.px_size, hist.size)
      min_zoom == IF QLess(ratio, Q(1, 8)) THEN Q(1, 8) ELSE ratio
      product == QMul(hist.zoom, hist.mod)
  IN /\ hist.op = "get_min_zoom" => hist.result = min_zoom
     /\ (hist.op = "zoom_gesture" /\ product # hist.zoom) =>
          IF QLess(QOne, min_zoom)
            THEN app.panicked /\ app.zoom = hist.zoom /\ app.scroll = None
            ELSE /\ ~app.panicked
                 /\ app.zoom = (IF QLess(product, min_zoom) THEN min_zoom
                                ELSE IF QLess(QOne, product) THEN QOne
                                ELSE product)

\* The example of the claim: chart 1000x1000 with viewport 500x250 gives 0.5.
C13_Witness ==
  /\ hist.op = "get_min_zoom"
  /\ hist.px_size = <<1000, 1000>>
  /\ hist.size = <<500, 250>>
  /\ hist.result = Q(1, 2)

\* Both ratios are below 1/8 and the minimum zoom is 1/8.
C13_FloorApplies ==
  /\ hist.op = "get_min_zoom"
  /\ QLess(LargerRatio(hist.px_size, hist.size), Q(1, 8))
  /\ hist.result = Q(1, 8)

\* A gesture with product 0.1 from zoom 1.0 in that example is clamped to 0.5.
C13_ClampedToMin ==
  /\ hist.op = "zoom_gesture"
  /\ hist.px_size = <<1000, 1000>>
  /\ hist.size = <<500, 250>>
  /\ hist.zoom = QOne
  /\ hist.mod = Q(1, 10)
  /\ app.zoom = Q(1, 2)

\* (old_scroll + anchor) * new_zoom / old_zoom - anchor, per axis
AnchorFormula(old_scroll, anchor, new_zoom, old_zoom) ==
  LET Axis(i) == QSub(QDiv(QMul(QAdd(old_scroll[i], anchor[i]), new_zoom), old_zoom),
                      anchor[i])
  IN <<Axis(1), Axis(2)>>

\* C14 as stated: when a zoom gesture changes the zoom, the scroll offset set
\* for the next frame is (old_scroll + anchor) * new_zoom / old_zoom - anchor;
\* when the clamped zoom equals the old zoom, scroll and zoom are left
\* unchanged.
C14_ScrollFormula ==
  (hist.op = "zoom_gesture" /\ ~app.panicked) =>
    IF app.zoom # hist.zoom
      THEN app.scroll = Some(AnchorFormula(hist.pos, hist.anchor, app.zoom, hist.zoom))
      ELSE app.scroll = None

\* C14 amended: when the product old_zoom * delta of a zoom gesture differs
\* from old_zoom and the minimum zoom is at most 1.0, the scroll offset set
\* for the next frame is (old_scroll + anchor) * new_zoom / old_zoom - anchor
\* with each component truncated toward zero and then raised to 0 when
\* negative, new_zoom being the clamped zoom; this is also so when the clamped
\* zoom equals the old zoom (the zoom then stays and the truncated current
\* offset is stored).  Scroll and zoom are left unchanged only when the
\* product equals old_zoom, or when the minimum zoom is above 1.0 and the
\* gesture panics.
C14_ScrollTruncated ==
  LET product == QMul(hist.zoom, hist.mod)
      raw == AnchorFormula(hist.pos, hist.anchor, app.zoom, hist.zoom)
      Stored(x) == IF x[1] < 0 THEN QZero
                   ELSE QInt(x[1] \div x[2])
  IN hist.op = "zoom_gesture" =>
       IF product = hist.zoom \/ app.panicked
         THEN app.scroll = None /\ app.zoom = hist.zoom /\ ~app.repaint
         ELSE /\ app.scroll = Some(<<Stored(raw[1]), Stored(raw[2])>>)
              /\ app.repaint

\* The example of the claim: zooming 1.0 to 0.5 with anchor (100,100) and
\* scroll (200,200) gives (50,50).
C14_Witness ==
  /\ hist.op = "zoom_gesture"
  /\ hist.zoom = QOne
  /\ app.zoom = Q(1, 2)
  /\ hist.anchor = QPos(100, 100)
  /\ hist.pos = QPos(200, 200)
  /\ app.scroll = Some(QPos(50, 50))

\* The clamped zoom equals the old zoom and a scroll offset is stored.
C14_SameZoomStores ==
  /\ hist.op = "zoom_gesture"
  /\ ~app.panicked
  /\ app.zoom = hist.zoom
  /\ app.scroll # None

\* The formula gives a negative component and 0 is stored for it.
C14_NegativeRaised ==
  /\ hist.op = "zoom_gesture"
  /\ app.zoom # hist.zoom
  /\ AnchorFormula(hist.pos, hist.anchor, app.zoom, hist.zoom)[1][1] < 0
  /\ app.scroll # None
  /\ app.scroll[1][1] = QZero

----------------------------------------------------------------------------
(* More claims about the viewport, checked under ViewSpec *)

NonNegInt(pos) ==
  \A i \in 1..2 : IsInt(pos[i]) /\ pos[i][1] >= 0

\* C15 as stated: every scroll offset the controller stores to seed a frame
\* has non-negative, integer-valued components, whichever operation stored
\* it: the offset a frame finds stored (and takes for its ScrollArea) and the
\* offset a frame leaves stored are such offsets.
C15_ScrollNonNegInt ==
  /\ (app.h_frame.ready /\ app.h_frame.taken # None) =>
        NonNegInt(app.h_frame.taken[1])
  /\ app.scroll # None => NonNegInt(app.scroll[1])

\* A zoom button stored the result of get_zoom_pos as it is (update, lines
\* 541-543 and 555-557), with a negative or fractional component, and the
\* central panel of the frame took it as the offset of its ScrollArea.
C15_ButtonStoresRaw ==
  /\ app.h_frame.ready
  /\ app.h_frame.event \in {"zoom_plus", "zoom_minus"}
  /\ app.h_frame.taken # None
  /\ ~NonNegInt(app.h_frame.taken[1])

\* Every offset stored through set_chart_scroll (frame normalisation, zoom
\* gesture, go-to-airport, side-panel toggle) has non-negative integer
\* components: an offset that has not is one a zoom button stored.
C15_OthersTruncate ==
  /\ (app.h_frame.ready /\ app.h_frame.taken # None
        /\ app.h_frame.event \notin {"zoom_plus", "zoom_minus"}) =>
        NonNegInt(app.h_frame.taken[1])
  /\ app.scroll # None => NonNegInt(app.scroll[1])

\* A frame normalised a fractional offset: it left the truncated offset stored.
C15_Normalised ==
  /\ app.h_frame.ready
  /\ ~app.panicked
  /\ ~NonNegInt(app.sa_offset)
  /\ app.scroll # None
  /\ app.scroll[1] = QPos(QTrunc(app.sa_offset[1]), QTrunc(app.sa_offset[2]))

ZoomOfRequests(q) ==
  {q[i].part[1].zoom : i \in {j \in 1..Len(q) : q[j].type = "Read"}}

\* C16: no tile request is issued with zoom <= 0: the assertion zoom > 0 of
\* ImagePart::new never fails, and every request a frame has made (the
\* per-frame request, the initial request, the day/night re-request) carries
\* a zoom above 0, after any sequence of zoom gestures, button clicks and
\* viewport resizes.
C16_RequestZoomPositive ==
  /\ ~app.h_assert
  /\ \A z \in ZoomOfRequests(app.h_frame.sent) \cup ZoomOfRequests(outbox)
                \cup ZoomOfRequests(reqQ) :
       QLess(QZero, z)

\* A day/night toggle after a zoom-out: the frame made the re-request and the
\* per-frame request, one of them at a zoom below 1.0.
C16_Witness ==
  /\ app.h_frame.ready
  /\ app.h_frame.toggled
  /\ Len(app.h_frame.sent) = 2
  /\ \E z \in ZoomOfRequests(app.h_frame.sent) : QLess(z, QOne)

\* The initial request, made with no image decoded yet.
C16_InitialPath ==
  /\ app.h_frame.ready
  /\ app.h_frame.image = None
  /\ app.h_frame.sent # <<>>

\* A per-frame request at the minimum zoom, after the zoom was clamped up.
C16_ClampedPath ==
  /\ app.h_frame.ready
  /\ app.h_frame.image # None
  /\ QLess(app.h_frame.zoom0, app.h_frame.min_zoom)
  /\ app.h_frame.sent = <<ReqRead(ImagePart(app.h_frame.rect, app.h_frame.min_zoom,
                                            app.h_frame.dark))>>

PartsSent(f) ==
  {f.sent[i].part[1] : i \in 1..Len(f.sent)}

\* C17 as stated: a frame in Ready in which the day/night flag is toggled
\* submits a tile request for the current rectangle and zoom carrying the new
\* flag; an image on display is not cleared by the frame; and setting night
\* mode to the value it already has submits nothing and changes nothing.
C17_ToggleRequests ==
  LET f == app.h_frame
  IN /\ (f.ready /\ f.toggled) => ImagePart(f.rect, f.zoom, f.dark) \in PartsSent(f)
     /\ (f.ready /\ f.image # None) => app.image # None
     /\ set_night_mode(app, app.night_mode) = app

\* What the code does when an image is on display: the toggle re-requests the
\* image's own rectangle and zoom with the new flag, and the frame submits a
\* request for the current rectangle and zoom with the new flag (the same
\* request when the image is up to date); the image is not cleared; setting
\* the value night mode already has changes nothing.
C17_ToggleWithImage ==
  LET f == app.h_frame
  IN /\ (f.ready /\ f.toggled /\ f.image # None) =>
          /\ ImagePart(f.image[1].rect, f.image[1].zoom, f.dark) \in PartsSent(f)
          /\ ImagePart(f.rect, f.zoom, f.dark) \in PartsSent(f)
     /\ (f.ready /\ f.image # None) => app.image # None
     /\ set_night_mode(app, app.night_mode) = app

\* The flag was toggled while no image had been decoded: nothing was
\* submitted for the new flag, the image of the initial request has arrived
\* with the old flag and is on display, and the frames submit nothing.
C17_WrongPalette ==
  /\ app.h_frame.ready
  /\ app.h_frame.sent = <<>>
  /\ ~app.h_input
  /\ app.image # None
  /\ app.image[1].dark # app.night_mode
  /\ app.image[1].rect = app.h_frame.rect
  /\ reqQ = <<>>
  /\ replyQ = <<>>

\* The toggle frame itself: no image, the flag toggled, nothing submitted.
C17_ToggleSubmitsNothing ==
  /\ app.h_frame.ready
  /\ app.h_frame.toggled
  /\ app.h_frame.image = None
  /\ app.h_frame.sent = <<>>

----------------------------------------------------------------------------
(* More claims about the frames of the viewer, checked under AppSpec *)

\* C18: a GdalError reply leaves the image on display and its ImagePart
\* unchanged and the controller in Ready; once an image has been set it is
\* only ever replaced by the image of a later Image reply and never cleared,
\* until the chart is closed or replaced.  In every step that is not the end
\* of a frame that dropped the open chart (cont # None): a chart in Ready
\* stays in Ready, an image stays an image, and a changed image is the part
\* of an Image reply that was waiting in the reply queue.
C18_ImageOnlyReplaced ==
  [][cont = None =>
       /\ app.chart = "Ready" => app'.chart = "Ready"
       /\ app.image # None => app'.image # None
       /\ app'.image # app.image =>
            \E i \in 1..Len(replyQ) :
               replyQ[i].kind = "Image" /\ replyQ[i].part = app'.image]_vars

\* A frame has handled a GdalError reply and the image is still on display.
C18_Witness ==
  /\ app.chart = "Ready"
  /\ app.h_frame.ready
  /\ app.h_failed # {}
  /\ app.image # None
  /\ app.image[1] \notin app.h_failed

----------------------------------------------------------------------------
(* Claims about the airport worker, checked under NasrSpec *)

IsQuery(m) ==
  m.type \in {"Airport", "Nearby", "Search"}

\* The numbers of the submitted queries, in submission order.
QueryTags ==
  LET qs == SelectSeq(hist.submitted, IsQuery)
  IN [i \in 1..Len(qs) |-> qs[i].n]

\* The numbers of the requests the replies sent so far answer, in the order
\* the worker sent them.
AnsweredTags ==
  [i \in 1..Len(hist.answered) |-> hist.answered[i].of]

\* The worker has nothing left to do: it has returned, or it waits in recv
\* on an empty channel.
AptQuiet ==
  \/ apt.pc = "done"
  \/ apt.pc = "recv" /\ apt.sender = <<>>

\* C19: the airport worker never supersedes or drops a query.  The replies
\* sent so far answer the submitted Airport, Nearby and Search requests one
\* each and in submission order (SpatialRef and Exit are never answered),
\* every reply is an Airport reply, the reply to a lookup or a search is the
\* result for its own request, and once the worker has nothing left to do,
\* also after Exit, every submitted query has its reply, those that were
\* still queued when Exit was sent included.
C19_EveryQueryAnsweredInOrder ==
  /\ IsPrefix(AnsweredTags, QueryTags)
  /\ \A i \in 1..Len(hist.answered) :
       LET rq == hist.submitted[hist.answered[i].of]
           reply == hist.answered[i].reply
       IN /\ reply.type = "Airport"
          /\ rq.type = "Airport" => reply.airports = airport_by_id(rq.arg)
          /\ rq.type = "Search" => reply.airports = search_airports(rq.arg)
  /\ AptQuiet => AnsweredTags = QueryTags
  /\ apt.pc = "done" => apt.sender = <<>>

\* The worker has returned after Exit, at least two queries were submitted
\* and all are answered, one of them after Exit had been sent, and a
\* SpatialRef message was among the messages.
C19_Witness ==
  /\ apt.pc = "done"
  /\ Len(QueryTags) >= 2
  /\ AnsweredTags = QueryTags
  /\ \E i \in 1..Len(hist.answered) : hist.answered[i].state = "joining"
  /\ \E i \in 1..Len(hist.submitted) : hist.submitted[i].type = "SpatialRef"

\* The worker has taken the request with number n out of the channel and
\* finished its arm of the match.
AptProcessed(n) ==
  /\ \A i \in 1..Len(apt.sender) : apt.sender[i].n # n
  /\ apt.request # None => apt.request[1].n # n

\* C20: a Nearby request processed while no transform is set is answered
\* with exactly one reply, an Airport reply with an empty list and not an
\* error, and the worker does not stop: it returns only after Exit.
C20_NearbyWithoutTransform ==
  /\ \A n \in 1..Len(hist.submitted) :
       LET rq == hist.submitted[n]
           is == {i \in 1..Len(hist.answered) : hist.answered[i].of = n}
       IN (rq.type = "Nearby" /\ AptProcessed(n)) =>
            /\ Cardinality(is) = 1
            /\ \A i \in is :
                 hist.answered[i].transform = None =>
                   /\ hist.answered[i].reply.type = "Airport"
                   /\ hist.answered[i].reply.airports = <<>>
  /\ apt.pc = "done" =>
       \E n \in 1..Len(hist.submitted) :
         hist.submitted[n].type = "Exit" /\ AptProcessed(n)

\* A Nearby request was answered with an empty list while no transform was
\* set, and the worker went on to answer a later request with a non-empty
\* list.
C20_Witness ==
  \E i, j \in 1..Len(hist.answered) :
    /\ i < j
    /\ hist.submitted[hist.answered[i].of].type = "Nearby"
    /\ hist.answered[i].transform = None
    /\ hist.answered[i].reply.airports = <<>>
    /\ hist.answered[j].reply.airports # <<>>

\* Reached: a Nearby request answered with a non-empty list once a
\* transform is set.
C20_NearbyWithTransform ==
  \E i \in 1..Len(hist.answered) :
    /\ hist.submitted[hist.answered[i].of].type = "Nearby"
    /\ hist.answered[i].transform # None
    /\ hist.answered[i].reply.airports # <<>>

\* The replies to Nearby requests that were processed with a transform set.
NearbyAnswers ==
  {i \in 1..Len(hist.answered) :
     /\ hist.submitted[hist.answered[i].of].type = "Nearby"
     /\ hist.answered[i].transform # None}

\* The squared planar distance between the chart coordinate c and the
\* position of the feature f in the projection of the transform trans.
Dist2(trans, f, c) ==
  LET p == transform_coords(trans, f.loc[1])
  IN (c[1] - p[1]) * (c[1] - p[1]) + (c[2] - p[2]) * (c[2] - p[2])

Ids(airports) ==
  [k \in 1..Len(airports) |-> airports[k].id]

C21_WiderRadius ==
  \E i \in NearbyAnswers :
    /\ hist.answered[i].transform = Some("lccA")
    /\ Ids(hist.answered[i].reply.airports) =
         << <<"A", "B">>, <<"C", "D">>, <<"A", "L">> >>

\* The replies to Search requests.
SearchAnswers ==
  {i \in 1..Len(hist.answered) :
     hist.submitted[hist.answered[i].of].type = "Search"}

\* The table indices of the records a reply holds, in reply order (ids are
\* unique in AptTable).
Rows(airports) ==
  [k \in 1..Len(airports) |->
     CHOOSE n \in 1..Len(AptTable) : AptTable[n].id = airports[k].id]

\* The indices of the table records that satisfy Match, ascending.
RowsWhere(Match(_)) ==
  LET RECURSIVE From(_)
      From(n) == IF n > Len(AptTable) THEN <<>>
                 ELSE IF Match(AptTable[n]) THEN <<n>> \o From(n + 1)
                 ELSE From(n + 1)
  IN From(1)

\* The term matches the record: its identifier ignoring case, or a
\* substring of its name ignoring case.
SearchMatch(f, term) ==
  \/ to_uppercase(f.id) = to_uppercase(term)
  \/ contains(to_uppercase(f.name), to_uppercase(term))

\* C22 as stated: the reply to Search(term) holds exactly the records of
\* the table that match by identifier (ignoring case) or by a substring of
\* the name, in table order, each once.
C22_SearchAllMatches ==
  \A i \in SearchAnswers :
    LET term == hist.submitted[hist.answered[i].of].arg
    IN Rows(hist.answered[i].reply.airports) =
         RowsWhere(LAMBDA f : SearchMatch(f, term))

\* C22: the reply to Search(term) holds, in table order and each once,
\* exactly the records for which an APTInfo can be built (position, known
\* site type and use code present) and whose stored identifier equals the
\* upper-cased term or whose stored name contains the upper-cased term.
C22_SearchBuildableMatches ==
  \A i \in SearchAnswers :
    LET term == to_uppercase(hist.submitted[hist.answered[i].of].arg)
        airports == hist.answered[i].reply.airports
        rows == RowsWhere(LAMBDA f :
                  /\ APTInfoNew(f) # None
                  /\ f.id = term \/ contains(f.name, term))
    IN /\ Rows(airports) = rows
       /\ \A k \in 1..Len(airports) :
            airports[k] = APTInfoNew(AptTable[rows[k]])[1]

\* Search("al") was answered with AB (name ALF), CD (name BAL) and AL
\* (identifier, and name ALX) once each; EF (name ALT) has no position and
\* is left out.
C22_Witness ==
  \E i \in SearchAnswers :
    /\ hist.submitted[hist.answered[i].of].arg = <<"a", "l">>
    /\ Ids(hist.answered[i].reply.airports) =
         << <<"A", "B">>, <<"C", "D">>, <<"A", "L">> >>

\* Reached: a search answered by the identifier alone.
C22_ById ==
  \E i \in SearchAnswers :
    /\ hist.submitted[hist.answered[i].of].arg = <<"C", "D">>
    /\ Ids(hist.answered[i].reply.airports) = << <<"C", "D">> >>

----------------------------------------------------------------------------
(* Claims about the secondary click, checked under ZoomSpec *)

\* C23 as stated: a secondary click over the chart whose conversion to
\* NAD83 failed sends no Nearby request, and a Nearby request is sent only
\* for a click whose conversion succeeded.
C23_FailedConversionSkipsSearch ==
  hist.op = "secondary_click" =>
    /\ (hist.result.inside /\ ~hist.result.converted) =>
         hist.result.nearby = None
    /\ hist.result.nearby # None => hist.result.converted

\* A secondary click over the chart whose conversion failed: no select menu
\* was opened, and the Nearby request was sent with the chart coordinate.
C23_SearchWithoutPopup ==
  /\ hist.op = "secondary_click"
  /\ hist.result.inside
  /\ ~hist.result.converted
  /\ hist.result.menu = None
  /\ hist.result.nearby # None

\* What the handler does: the select menu is opened exactly for the clicks
\* over the chart whose conversion succeeded, and the Nearby request is
\* sent exactly for the clicks over the chart while the airport index is
\* available, whatever the conversion returned.
C23_SearchIgnoresConversion ==
  hist.op = "secondary_click" =>
    /\ hist.result.menu # None <=> (hist.result.inside /\ hist.result.converted)
    /\ hist.result.nearby # None <=>
         (hist.result.inside /\ hist.result.spatial_idx)

\* Reached: a click whose conversion succeeded, with menu and request.
C23_ConvertedClick ==
  /\ hist.op = "secondary_click"
  /\ hist.result.converted
  /\ hist.result.menu # None
  /\ hist.result.nearby # None

----------------------------------------------------------------------------
(* Claims about opening a chart, checked under OpenSpec *)

\* The PROJ4 text of the dataset names a Lambert conformal conic projection
\* with the NAD83 datum and metres.
LccNad83Metres(d) ==
  d.proj4 \in {Some(Proj4Lcc)}

\* gdal can read the file, its spatial reference and PROJ4 text and its
\* geo-transformation, and the geo-transformation can be inverted.
Readable(d) ==
  /\ d.opens /\ d.sr /\ d.proj4 # None
  /\ d.geo # None /\ GeoInvert(d.geo[1]) # None

C24_BothInvalid ==
  /\ hist.op = "open"
  /\ ~is_valid(hist.dataset.size)
  /\ hist.result.err = "InvalidSpatialReference"
  /\ wpc = "none"

\* Reached: a valid projection and size, and no PaletteIndex band.
C24_NoBand ==
  /\ hist.op = "open"
  /\ LccNad83Metres(hist.dataset)
  /\ is_valid(hist.dataset.size)
  /\ hist.result.err = "RasterNotFound"

----------------------------------------------------------------------------
(* Claims about the coordinate conversions, checked under TransformSpec *)

C25_Nad83Witness ==
  /\ hist.op = "nad83"
  /\ hist.sr = "lccB"
  /\ hist.x = <<Q(301, 2), QInt(-50)>>
  /\ hist.mid # None
  /\ hist.result = Some(hist.x)

\* Reached: a chart coordinate outside the domain is not converted.
C25_OutsideDomain ==
  /\ hist.op = "nad83"
  /\ hist.mid = None

----------------------------------------------------------------------------
(* Claims about the side panel, checked under ViewSpec *)

\* The last step was a frame with the chart open in which the side panel
\* changed from open to closed / from closed to open.
PanelClosed ==
  app.h_frame.ready /\ app.h_frame.panel0 /\ ~app.side_panel

PanelOpened ==
  app.h_frame.ready /\ ~app.h_frame.panel0 /\ app.side_panel

\* C26 as stated: a frame that closes the side panel hands the scroll area
\* the offset (x - (panel width + 1), y), and a frame that opens it the
\* offset (x + (panel width + 1), y), where (x, y) is the offset of the
\* display rectangle when the frame began.
C26_ToggleShiftsScroll ==
  LET x == app.h_frame.pos0[1]
      y == app.h_frame.pos0[2]
      offset == app.side_panel_width + 1
  IN /\ PanelClosed => app.h_frame.taken = Some(QPos(x - offset, y))
     /\ PanelOpened => app.h_frame.taken = Some(QPos(x + offset, y))

\* The chart was opened at the offset (0, 0) with the panel open; the panel
\* was closed and opened again with no other input, and the frame that
\* opened it leaves the chart at x = panel width + 1, not at 0.
C26_NotRestored ==
  /\ PanelOpened
  /\ app.nEvents = 2
  /\ app.h_frame.pos0 = <<0, 0>>
  /\ app.h_frame.taken = Some(QPos(app.side_panel_width + 1, 0))
  /\ app.h_frame.rect.pos = <<app.side_panel_width + 1, 0>>

\* Reached: closing the panel at x = 0 leaves the offset at 0.
C26_ClosingClamped ==
  /\ PanelClosed
  /\ app.h_frame.pos0[1] = 0
  /\ app.h_frame.taken = Some(QPos(0, app.h_frame.pos0[2]))

\* What the code does in every frame that closes or opens the panel: the
\* offset handed to the scroll area is the shifted one, not below 0.
C26_ShiftClampedAtZero ==
  LET x == app.h_frame.pos0[1]
      y == app.h_frame.pos0[2]
      offset == app.side_panel_width + 1
  IN /\ PanelClosed => app.h_frame.taken = Some(QPos(Max(x - offset, 0), y))
     /\ PanelOpened => app.h_frame.taken = Some(QPos(x + offset, y))

----------------------------------------------------------------------------
\* C27, under AppSpec.

ChartStates == {"None", "Load", "Ready"}

\* The dialogs of the frame that ended: an open was attempted (a zip with one
\* chart was selected, or an entry of the selection dialog was chosen).
OpenAttempted(d) == d.done /\ (d.file = "one" \/ d.select = "index")

\* C27: the chart state is one of None (NoChart), Load (Loading) and Ready,
\* and a frame changes it only in these ways: a zip with several charts
\* enters Load; an open attempt ends in Ready with zoom 1, the scroll (0, 0)
\* pending and no image when it succeeds (the central panel of that frame
\* sees these values unless another user event of the frame changed them),
\* and in None with the error dialog (open, or closed by the user in the
\* same frame) when it fails; a cancel in Load ends in None; Ready is entered only by a
\* successful open, and Load is left only by a choice or a cancel.
C27_ChartStateMachine ==
  [][LET c == app.chart
         c2 == app'.chart
         d == app'.h_dlg
         f == app'.h_frame
         o == open_chart(app, TRUE)
     IN /\ c2 \in ChartStates
        /\ o.chart = "Ready" /\ o.zoom = QOne
        /\ o.scroll = Some(QPos(0, 0)) /\ o.image = None
        /\ ~d.done => c2 = c
        /\ d.done =>
             /\ (d.file = "many" /\ d.select = "none") => c2 = "Load"
             /\ (OpenAttempted(d) /\ d.open_ok) =>
                  /\ c2 = "Ready"
                  /\ f.image = None
                  /\ app'.image = None
                  /\ f.event = "none" =>
                       /\ f.zoom0 = QOne
                       /\ f.taken = Some(QPos(0, 0))
             /\ (OpenAttempted(d) /\ ~d.open_ok) =>
                  /\ c2 = "None"
                  /\ app'.error_dlg \/ d.err_close
             /\ (d.select = "cancel") => c2 = "None"
             /\ (c2 = "Load" /\ c # "Load") => d.file = "many"
             /\ (c2 = "Ready" /\ c # "Ready") =>
                  OpenAttempted(d) /\ d.open_ok
             /\ (c = "Load" /\ c2 # "Load") =>
                  d.select \in {"index", "cancel"}
             /\ (c2 = "None" /\ c # "None") =>
                  \/ d.select = "cancel"
                  \/ OpenAttempted(d) /\ ~d.open_ok
             /\ (c2 # c) =>
                  \/ d.file \in {"one", "many"}
                  \/ c = "Load"]_vars

\* Reached: a choice in the selection dialog of an earlier frame opened the
\* chart: Ready, zoom 1, the scroll (0, 0) taken by the scroll area, no image.
C27_Witness ==
  /\ app.h_dlg.done
  /\ app.h_dlg.file = "visible"
  /\ app.h_dlg.select = "index"
  /\ app.h_dlg.open_ok
  /\ app.chart = "Ready"
  /\ app.h_frame.taken = Some(QPos(0, 0))
  /\ app.h_frame.zoom0 = QOne
  /\ app.h_frame.event = "none"
  /\ app.image = None

\* Reached: a failed open of a chosen entry: no chart, the error dialog open.
C27_FailedOpen ==
  /\ app.h_dlg.done
  /\ app.h_dlg.select = "index"
  /\ ~app.h_dlg.open_ok
  /\ app.chart = "None"
  /\ app.error_dlg

\* Reached: the choice was cancelled.
C27_Cancelled ==
  /\ app.h_dlg.done
  /\ app.h_dlg.file = "visible"
  /\ app.h_dlg.select = "cancel"
  /\ app.chart = "None"

----------------------------------------------------------------------------
\* C28, under ViewFairSpec.

\* The viewport of the open chart: display rectangle, zoom, night flag.
Viewport == <<app.disp_rect, app.zoom, app.night_mode>>

\* No decode has failed: no GdalError reply is waiting for the frame.
DecodesSucceed ==
  \A i \in 1..Len(replyQ) : replyQ[i].kind # "GdalError"

\* A frame runs after every repaint request: the program has not ended in a
\* panic, after which no frame runs.
FramesRun ==
  ~app.panicked

\* The displayed image is the part of the chart that the viewport shows.
ImageCurrent ==
  /\ app.chart = "Ready"
  /\ app.image # None
  /\ app.image[1].rect = app.disp_rect
  /\ app.image[1].zoom = app.zoom

\* No request has been submitted and not yet taken by the worker.
NothingSubmitted ==
  outbox = <<>> /\ reqQ = <<>>

C28_ConvergesEvenAfterPanic ==
  ([]DecodesSucceed /\ <>[][Viewport' = Viewport]_vars)
    => <>[](ImageCurrent /\ NothingSubmitted)

----------------------------------------------------------------------------
\* C29, under ReadsSpec.

\* No Exit has been sent to the worker.
NoExitSent ==
  hist.nExits = 0

\* The parts the replies sent so far carry, in the order sent.
SentParts ==
  [i \in 1..Len(hist.sent) |-> hist.sent[i].part[1]]

\* The i-th reply answers the i-th read_image call, with one of the three
\* kinds of reply.
RepliesInOrder ==
  /\ IsPrefix(SentParts, hist.submitted)
  /\ \A i \in 1..Len(hist.sent) :
       /\ hist.sent[i].kind \in {"Image", "GdalError", "Canceled"}
       /\ hist.sent[i].part # None

\* Every read_image call made has its reply, and no reply more.
AllAnswered ==
  SentParts = hist.submitted

\* C29: as long as no Exit is sent to the worker, the replies sent are, in
\* order, the replies to the Reads submitted, one for each and each with the
\* ImagePart of its Read; and when no Exit is ever sent every Read submitted
\* gets its reply.
C29_OneReplyPerRead ==
  /\ [](NoExitSent => RepliesInOrder)
  /\ ([]NoExitSent => <>[]AllAnswered)

\* Reached: three Reads, not all for the same part, were submitted while the
\* worker was busy, and all have their replies, a Canceled one among them.
C29_Witness ==
  /\ NoExitSent
  /\ Len(hist.submitted) = MaxReads
  /\ hist.submitted[1] # hist.submitted[2]
  /\ AllAnswered
  /\ \E i \in 1..Len(hist.sent) : hist.sent[i].kind = "Canceled"
  /\ \E i \in 1..Len(hist.sent) : hist.sent[i].kind = "Image"

----------------------------------------------------------------------------
\* C30, under ViewSpec.

\* Ready with an image on display, no request queued or on its way to the
\* queue, no reply waiting for a frame, no repaint due.  (A turn of the
\* worker is one step of ViewSpec, so no decode is in progress in any state.)
Quiescent ==
  /\ app.chart = "Ready"
  /\ ~app.panicked
  /\ app.image # None
  /\ outbox = <<>>
  /\ reqQ = <<>>
  /\ replyQ = <<>>
  /\ ~repaintReq

\* C30 as stated: whenever the viewer is quiescent in Ready the dark flag of
\* the displayed image is the current night mode.
C30_DarkFlagCurrent ==
  Quiescent => app.image[1].dark = app.night_mode

\* Reached: night mode was switched on by the only user event, the image on
\* display is the first image of the chart, decoded for the day palette, and
\* nothing is queued, pending or due.
C30_StaleFlag ==
  /\ Quiescent
  /\ app.nEvents = 1
  /\ app.night_mode
  /\ ~app.image[1].dark
  /\ app.image[1].zoom = QOne
  /\ app.image[1].rect = app.disp_rect

\* What the code gives: when no decode fails and no day/night toggle is made
\* in a frame without an image, the image on display at rest has the
\* current flag.
C30_CurrentUnlessToggledEarly ==
  ([]DecodesSucceed /\ [](app.h_frame.toggled => app.h_frame.image # None))
    => [](Quiescent => app.image[1].dark = app.night_mode)

----------------------------------------------------------------------------
\* C31, under NasrSpec.

\* The transform of the most recent of the first n messages submitted that is
\* a SpatialRef message whose text gives a transform; None when there is none.
RECURSIVE LastTransform(_)
LastTransform(n) ==
  IF n = 0
    THEN None
    ELSE LET m == hist.submitted[n]
         IN IF m.type = "SpatialRef" /\ CoordTransformNew(m.arg) # None
              THEN CoordTransformNew(m.arg)
              ELSE LastTransform(n - 1)

\* The worker is at the top of its loop with nothing queued.
AptIdle ==
  apt.pc = "recv" /\ apt.sender = <<>> /\ apt.request = None

\* C31: a Nearby query is answered with the transform of the most recent
\* SpatialRef message before it that gave a transform; a SpatialRef message
\* gets no reply, one whose text gives no transform leaves the transform (or
\* its absence) as it was, and the worker ends only on Exit.
C31_NearbyUsesLatestTransform ==
  /\ \A i \in 1..Len(hist.answered) :
       LET a == hist.answered[i]
           m == hist.submitted[a.of]
       IN /\ m.type # "SpatialRef"
          /\ m.type = "Nearby" =>
               /\ a.transform = LastTransform(a.of - 1)
               /\ a.reply.airports =
                    nearby_airports(LastTransform(a.of - 1), m.arg[1], m.arg[2])
  /\ AptIdle => apt.transform = LastTransform(Len(hist.submitted))
  /\ apt.pc = "done" =>
       \E n \in 1..Len(hist.submitted) : hist.submitted[n].type = "Exit"

\* Reached: SpatialRef with a good text, SpatialRef with a bad text, Nearby:
\* the query was answered with the transform of the first message, and the
\* airport at the chart's origin was found.
C31_Witness ==
  /\ Len(hist.submitted) = 3
  /\ hist.submitted[1].type = "SpatialRef" /\ hist.submitted[1].arg = "lccA"
  /\ hist.submitted[2].type = "SpatialRef" /\ hist.submitted[2].arg = "bad"
  /\ hist.submitted[3].type = "Nearby"
  /\ Len(hist.answered) = 1
  /\ hist.answered[1].of = 3
  /\ hist.answered[1].transform = Some("lccA")
  /\ hist.answered[1].reply.airports # <<>>

\* Reached: a second good SpatialRef replaced the first before the query.
C31_Replaced ==
  /\ Len(hist.submitted) = 3
  /\ hist.submitted[1].type = "SpatialRef" /\ hist.submitted[1].arg = "lccA"
  /\ hist.submitted[2].type = "SpatialRef" /\ hist.submitted[2].arg = "lccB"
  /\ Len(hist.answered) = 1
  /\ hist.answered[1].transform = Some("lccB")

----------------------------------------------------------------------------
\* C32, under AppSpec.

\* The worker thread of a Source exists and has not returned.
WorkerAlive ==
  wpc \notin {"none", "done"}

\* C32: there is one worker thread at most.  A frame that opens a chart
\* starts the new worker only when no worker is alive, and when a chart was
\* open its Source has been sent Exit and its thread has ended; the new
\* Source starts with empty channels and no image, so that nothing the old
\* worker sent reaches the new chart.  A frame that goes from Ready to Load
\* has dropped the Source in the same way.  After a failed open there is no
\* chart and no worker.  A worker is alive only for the chart in Ready or
\* while its Source is being dropped.
C32_OneWorker ==
  [][LET d == app'.h_dlg
     IN /\ (OpenAttempted(d) /\ d.open_ok) =>
             /\ ~WorkerAlive
             /\ app.chart = "Ready" => (srcState = "joining" /\ wpc = "done")
             /\ srcState' = "open" /\ wpc' = "recv"
             /\ reqQ' = <<>> /\ replyQ' = <<>>
             /\ app'.image = None
        /\ (app.chart = "Ready" /\ app'.chart = "Load") =>
             /\ srcState = "joining" /\ wpc = "done"
             /\ srcState' = "dropped"
        /\ (OpenAttempted(d) /\ ~d.open_ok) =>
             /\ app'.chart = "None"
             /\ wpc' \in {"none", "done"}
             /\ srcState' \in {"none", "dropped"}
        /\ (WorkerAlive)' =>
             \/ app'.chart = "Ready" /\ srcState' = "open"
             \/ srcState' = "joining"]_vars

\* Reached: a frame that opens a second chart has sent Exit to the Source of
\* the first and waits in join; the first worker has ended, and a reply it
\* sent after the frame had emptied the channel is left in that channel.
C32_Witness ==
  /\ cont # None
  /\ cont[1].file = "one"
  /\ cont[1].open_ok
  /\ srcState = "joining"
  /\ wpc = "done"
  /\ replyQ # <<>>

\* Reached: the open of the second chart failed: no chart, the first
\* worker ended.
C32_FailedReopen ==
  /\ app.h_dlg.done
  /\ app.h_dlg.file = "one"
  /\ ~app.h_dlg.open_ok
  /\ app.chart = "None"
  /\ srcState = "dropped"
  /\ wpc = "done"

----------------------------------------------------------------------------
(* TouchSpec: the LongPressTracker through its API (set, update, drop), its *)
(* timer thread and the system clock.                                       *)

\* set calls of a behaviour in TouchSpec
MaxTouchEvents ==
  3

\* ticks of the clock in TouchSpec
MaxTime ==
  3

TouchIds ==
  {1, 2}

TouchPositions ==
  {<<1, 1>>, <<2, 2>>}

TouchPhases ==
  {"Start", "Move", "End", "Cancel"}

\* History of TouchSpec (not program state):
\*   now       the system clock
\*   down      the touches that have started and not yet ended
\*   pending   the touch that started with no other touch down and has seen
\*             no Move, End, Cancel or second Start since (start time, pos)
\*   nSet      the set calls made, nRefresh the Refresh requests sent
\*   sent      every request in the order of its send call, with the clock
\*             at the send
\*   repaints  every ctx.request_repaint() of the thread: the Refresh it had
\*             armed and the clock at the call
\*   last      the last call of the API and what it did
HistTouch ==
  [now |-> 0, down |-> {}, pending |-> None, nSet |-> 0, nRefresh |-> 0,
   sent |-> <<>>, repaints |-> <<>>, last |-> [op |-> "none"]]

TouchInit ==
  /\ reqQ = <<>>
  /\ replyQ = <<>>
  /\ wpc = "none"
  /\ request = None
  /\ read = None
  /\ part = None
  /\ repaintReq = FALSE
  /\ srcState = "none"
  /\ lastReply = None
  /\ app = AppNew(FALSE)
  /\ outbox = <<>>
  /\ cont = None
  /\ apt = AptNew
  /\ hist = HistTouch

\* The requests a call appended to the channel, stamped with the clock.
NewRequests(lp, lp2) ==
  [i \in 1..(Len(lp2.sender) - Len(lp.sender)) |->
     [at |-> hist.now] @@ lp2.sender[Len(lp.sender) + i]]

\* process_input_events: egui::Event::Touch handed to the tracker.  A touch
\* starts with Start and moves or ends only while it is down.
TSet ==
  /\ app.long_press.state = "open"
  /\ hist.nSet < MaxTouchEvents
  /\ \E id \in TouchIds, phase \in TouchPhases, pos \in TouchPositions :
       /\ (phase = "Start") = (id \notin hist.down)
       /\ LET lp == app.long_press
              lp2 == set(lp, id, phase, pos, hist.now, hist.nRefresh + 1)
              new == NewRequests(lp, lp2)
              first == phase = "Start" /\ hist.down = {}
          IN /\ app' = [app EXCEPT !.long_press = lp2]
             /\ hist' = [hist EXCEPT
                  !.down = IF phase = "Start" THEN @ \cup {id}
                           ELSE IF phase = "Move" THEN @ ELSE @ \ {id},
                  !.pending = IF first
                                THEN Some([start |-> hist.now, pos |-> pos])
                                ELSE None,
                  !.nSet = @ + 1,
                  !.nRefresh = @ + Len(SelectSeq(new, LAMBDA m : m.type = "Refresh")),
                  !.sent = @ \o new,
                  !.last = [op |-> IF first THEN "first" ELSE "clear",
                            had |-> hist.pending # None,
                            cancels |-> Len(SelectSeq(new, LAMBDA m : m.type = "Cancel")),
                            refreshes |-> Len(SelectSeq(new, LAMBDA m : m.type = "Refresh"))]]
  /\ UNCHANGED <<wVars, lastReply, outbox, cont, apt>>

\* process_input_events: the tracker asked for a long press, once per frame
TUpdate ==
  /\ app.long_press.state = "open"
  /\ LET lp == app.long_press
         lp2 == update(lp, hist.now)
         reported == lp.info # None /\ lp2.info = None
     IN /\ app' = [app EXCEPT !.long_press = lp2]
        /\ hist' = [hist EXCEPT
             !.pending = IF reported THEN None ELSE @,
             !.last = [op |-> "update", reported |-> reported,
                       ok |-> /\ hist.pending # None
                              /\ lp2.pos = Some(hist.pending[1].pos)
                              /\ hist.now - hist.pending[1].start >= LONG_PRESS_DUR]]
  /\ UNCHANGED <<wVars, lastReply, outbox, cont, apt>>

\* The system clock advances.
Tick ==
  /\ hist.now < MaxTime
  /\ hist' = [hist EXCEPT !.now = @ + 1]
  /\ UNCHANGED <<wVars, lastReply, appVars>>

\* Drop for LongPressTracker, first half: send Exit, then wait in join.
TDrop ==
  /\ app.long_press.state = "open"
  /\ app' = [app EXCEPT !.long_press.sender = Append(@, [type |-> "Exit"]),
                        !.long_press.state = "joining"]
  /\ hist' = [hist EXCEPT !.sent = Append(@, [type |-> "Exit", at |-> hist.now]),
                          !.last = [op |-> "drop"]]
  /\ UNCHANGED <<wVars, lastReply, outbox, cont, apt>>

\* Drop for LongPressTracker, second half: join returns once the thread has
\* returned.
TJoin ==
  /\ app.long_press.state = "joining"
  /\ app.long_press.pc = "done"
  /\ app' = [app EXCEPT !.long_press.state = "dropped"]
  /\ UNCHANGED <<wVars, lastReply, outbox, cont, apt, hist>>

\* Timer thread, outer loop: receiver.recv() returns; time = None.
LRecv ==
  /\ app.long_press.pc = "recv"
  /\ app.long_press.sender # <<>>
  /\ app' = [app EXCEPT !.long_press.request = Some(Head(app.long_press.sender)),
                        !.long_press.sender = Tail(@),
                        !.long_press.time = None,
                        !.long_press.pc = "match"]
  /\ UNCHANGED <<wVars, lastReply, outbox, cont, apt, hist>>

\* Timer thread, inner loop: the match on request.take().
LMatch ==
  /\ app.long_press.pc = "match"
  /\ LET lp == app.long_press
         rq == lp.request
     IN app' = [app EXCEPT !.long_press =
          IF rq = None
            THEN [lp EXCEPT !.pc = "check"]
            ELSE CASE rq[1].type = "Refresh" ->
                        [lp EXCEPT !.time = Some([t |-> rq[1].t, n |-> rq[1].n]),
                                   !.request = None, !.pc = "check"]
                   [] rq[1].type = "Cancel" ->
                        [lp EXCEPT !.time = None, !.request = None, !.pc = "check"]
                   [] OTHER ->
                        [lp EXCEPT !.request = None, !.pc = "done"]]
  /\ UNCHANGED <<wVars, lastReply, outbox, cont, apt, hist>>

\* Timer thread, inner loop: if check_time(time) { ctx.request_repaint(); time = None }
LCheck ==
  /\ app.long_press.pc = "check"
  /\ IF check_time(app.long_press.time, hist.now)
       THEN /\ app' = [app EXCEPT !.long_press.time = None,
                                  !.long_press.pc = "try_recv"]
            /\ hist' = [hist EXCEPT !.repaints =
                          Append(@, [of |-> app.long_press.time[1].n,
                                     at |-> hist.now])]
            /\ repaintReq' = TRUE
       ELSE /\ app' = [app EXCEPT !.long_press.pc = "try_recv"]
            /\ UNCHANGED <<hist, repaintReq>>
  /\ UNCHANGED <<reqQ, replyQ, wpc, request, read, part, srcState>>
  /\ UNCHANGED <<lastReply, outbox, cont, apt>>

\* Timer thread, inner loop: receiver.try_recv(), then the break to the outer
\* loop or the sleep of PAUSE before the next turn.
LTryRecv ==
  /\ app.long_press.pc = "try_recv"
  /\ LET lp == app.long_press
         rq == IF lp.sender # <<>> THEN Some(Head(lp.sender)) ELSE None
     IN app' = [app EXCEPT !.long_press =
          [lp EXCEPT !.request = rq,
                     !.sender = IF lp.sender # <<>> THEN Tail(@) ELSE @,
                     !.pc = IF rq = None /\ lp.time = None THEN "recv" ELSE "match"]]
  /\ UNCHANGED <<wVars, lastReply, outbox, cont, apt, hist>>

TouchNext ==
  \/ TSet
  \/ TUpdate
  \/ Tick
  \/ TDrop
  \/ TJoin
  \/ LRecv
  \/ LMatch
  \/ LCheck
  \/ LTryRecv

TouchSpec ==
  TouchInit /\ [][TouchNext]_vars

----------------------------------------------------------------------------
(* Claims about the LongPressTracker, checked under TouchSpec *)

C37_SecondTouch ==
  /\ hist.last.op = "clear"
  /\ hist.last.had
  /\ app.long_press.ids = TouchIds
  /\ app.long_press.info = None
  /\ hist.last.cancels = 1

\* The place in hist.sent of the Refresh with number n.
RefreshAt(n) ==
  CHOOSE i \in 1..Len(hist.sent) :
    hist.sent[i].type = "Refresh" /\ hist.sent[i].n = n

\* The deadline of the Refresh at place i: LONG_PRESS_DUR after its timestamp.
Deadline(i) ==
  hist.sent[i].t + LONG_PRESS_DUR

\* A later Refresh or Cancel was sent before the deadline of the Refresh at
\* place i.
Superseded(i) ==
  \E j \in (i + 1)..Len(hist.sent) :
    /\ hist.sent[j].type \in {"Refresh", "Cancel"}
    /\ hist.sent[j].at < Deadline(i)

\* C38: the timer thread requests a repaint only for a Refresh whose
\* deadline has passed with no later Refresh or Cancel sent before it, and
\* once at most: never for a Refresh that was cancelled or replaced before
\* its deadline.
C38_RepaintOnlyWhenDue ==
  /\ \A k \in 1..Len(hist.repaints) :
       LET i == RefreshAt(hist.repaints[k].of)
       IN /\ hist.repaints[k].at >= Deadline(i)
          /\ ~Superseded(i)
  /\ \A k, l \in 1..Len(hist.repaints) :
       hist.repaints[k].of = hist.repaints[l].of => k = l

\* Reached: a repaint has been requested for a Refresh although its Cancel
\* was sent before the deadline: the thread had looked into the channel
\* before the Cancel was sent and checked the time after the deadline.
C38_CancelledButRepainted ==
  \E k \in 1..Len(hist.repaints) :
    LET i == RefreshAt(hist.repaints[k].of)
    IN /\ i < Len(hist.sent)
       /\ hist.sent[i + 1].type = "Cancel"
       /\ hist.sent[i + 1].at < Deadline(i)
       /\ hist.repaints[k].at >= Deadline(i)

\* What holds of the repaints: each is requested for a Refresh the thread
\* had armed, not before its deadline, and once at most for one Refresh.
C38_NeverEarlyNeverTwice ==
  /\ \A k \in 1..Len(hist.repaints) :
       hist.repaints[k].at >= Deadline(RefreshAt(hist.repaints[k].of))
  /\ \A k, l \in 1..Len(hist.repaints) :
       hist.repaints[k].of = hist.repaints[l].of => k = l

----------------------------------------------------------------------------
(* ConfigSpec: config::Storage through its setters, clone and drop, and the *)
(* persist thread.                                                          *)

\* set calls of a behaviour in ConfigSpec
MaxSets ==
  3

\* Storage values alive at a time
MaxClones ==
  2

ConfigValues ==
  {"x", "y"}

\* The file Storage::new finds: none (or not a JSON object), an empty object,
\* an object with one item.
ConfigFiles ==
  {[object |-> FALSE, items |-> NoItems],
   [object |-> TRUE, items |-> NoItems],
   [object |-> TRUE, items |-> [NoItems EXCEPT !["night_mode"] = Some("x")]]}

\* History of ConfigSpec (not program state): the set calls made, those that
\* changed an item, the fs::write calls made, whether one of them failed.
HistConfig ==
  [sets |-> 0, changes |-> 0, writes |-> 0, failed |-> FALSE]

ConfigInit ==
  /\ reqQ = <<>>
  /\ replyQ = <<>>
  /\ wpc = "none"
  /\ request = None
  /\ read = None
  /\ part = None
  /\ repaintReq = FALSE
  /\ srcState = "none"
  /\ lastReply = None
  /\ \E file \in ConfigFiles : app = [AppNew(FALSE) EXCEPT !.config = StorageNew(file)]
  /\ outbox = <<>>
  /\ cont = None
  /\ apt = AptNew
  /\ hist = HistConfig

\* What a persist call adds to the history.
Persisted(c, ok) ==
  [hist EXCEPT !.writes = IF c.changed THEN @ + 1 ELSE @,
               !.failed = @ \/ (c.changed /\ ~ok)]

\* A setter (set_win_info, set_night_mode, set_asset_path) up to items.set:
\* self.items.write() returns once no other lock is held.
CSet ==
  /\ app.config.main = "idle"
  /\ app.config.clones > 0
  /\ app.config.lock = "free"
  /\ hist.sets < MaxSets
  /\ \E key \in ConfigKeys, item \in ConfigValues :
       LET c == items_set([app.config EXCEPT !.lock = "write"], key, item)
       IN /\ app' = [app EXCEPT !.config = [c EXCEPT !.main = "send"]]
          /\ hist' = [hist EXCEPT !.sets = @ + 1,
                                  !.changes = IF c.items # app.config.items
                                                THEN @ + 1 ELSE @]
  /\ UNCHANGED <<wVars, lastReply, outbox, cont, apt>>

\* The setter's self.thread.persist(): tx.send(()) under the write lock.
CSend ==
  /\ app.config.main = "send"
  /\ app' = [app EXCEPT !.config.msgs = @ + 1, !.config.main = "unlock"]
  /\ UNCHANGED <<wVars, lastReply, outbox, cont, apt, hist>>

\* The setter returns: the write guard is dropped.
CUnlock ==
  /\ app.config.main = "unlock"
  /\ app' = [app EXCEPT !.config.lock = "free", !.config.main = "idle"]
  /\ UNCHANGED <<wVars, lastReply, outbox, cont, apt, hist>>

\* Storage::clone
CClone ==
  /\ app.config.main = "idle"
  /\ app.config.clones \in 1..(MaxClones - 1)
  /\ app' = [app EXCEPT !.config.clones = @ + 1]
  /\ UNCHANGED <<wVars, lastReply, outbox, cont, apt, hist>>

\* A Storage is dropped.  While another one is alive both Arcs only count
\* down; the last one drops its Arc of the items, then the PersistThread:
\* the sender is dropped and the thread joined.
CDrop ==
  /\ app.config.main = "idle"
  /\ app.config.clones > 0
  /\ app' = [app EXCEPT !.config.clones = @ - 1,
                        !.config.tx = (app.config.clones > 1),
                        !.config.main = IF app.config.clones > 1 THEN "idle" ELSE "join"]
  /\ UNCHANGED <<wVars, lastReply, outbox, cont, apt, hist>>

\* Drop for PersistThread: join returns once the thread has ended.
CJoin ==
  /\ app.config.main = "join"
  /\ app.config.pc = "done"
  /\ app' = [app EXCEPT !.config.main = "dropped"]
  /\ UNCHANGED <<wVars, lastReply, outbox, cont, apt, hist>>

\* Persist thread: rx.recv() returns a message, or Err once the channel is
\* empty and the sender dropped.
PRecv ==
  /\ app.config.pc = "recv"
  /\ app.config.msgs > 0 \/ ~app.config.tx
  /\ app' = [app EXCEPT !.config.msgs = IF @ > 0 THEN @ - 1 ELSE @,
                        !.config.pc = IF app.config.msgs > 0 THEN "lock" ELSE "exit"]
  /\ UNCHANGED <<wVars, lastReply, outbox, cont, apt, hist>>

\* Persist thread: items.read() returns once no writer holds the lock.
PLock ==
  /\ app.config.pc = "lock"
  /\ app.config.lock = "free"
  /\ app' = [app EXCEPT !.config.lock = "read", !.config.pc = "persist"]
  /\ UNCHANGED <<wVars, lastReply, outbox, cont, apt, hist>>

\* Persist thread: persist() under the read lock, then the guard is dropped.
PPersist ==
  /\ app.config.pc = "persist"
  /\ \E ok \in BOOLEAN :
       /\ app' = [app EXCEPT !.config =
                    [persist(app.config, ok) EXCEPT !.lock = "free", !.pc = "recv"]]
       /\ hist' = Persisted(app.config, ok)
  /\ UNCHANGED <<wVars, lastReply, outbox, cont, apt>>

\* Persist thread: the closure returns and drops the last Arc of the items:
\* Drop for Items calls persist.
PExit ==
  /\ app.config.pc = "exit"
  /\ \E ok \in BOOLEAN :
       /\ app' = [app EXCEPT !.config = [persist(app.config, ok) EXCEPT !.pc = "done"]]
       /\ hist' = Persisted(app.config, ok)
  /\ UNCHANGED <<wVars, lastReply, outbox, cont, apt>>

ConfigNext ==
  \/ CSet
  \/ CSend
  \/ CUnlock
  \/ CClone
  \/ CDrop
  \/ CJoin
  \/ PRecv
  \/ PLock
  \/ PPersist
  \/ PExit

ConfigSpec ==
  ConfigInit /\ [][ConfigNext]_vars

\* The threads are scheduled: a step that stays possible is taken.
ConfigFairSpec ==
  /\ ConfigSpec
  /\ WF_vars(CSend) /\ WF_vars(CUnlock) /\ WF_vars(CJoin)
  /\ WF_vars(PRecv) /\ WF_vars(PLock) /\ WF_vars(PPersist) /\ WF_vars(PExit)

\* The file holds the current items.
FileCurrent ==
  load_items(app.config.file) = app.config.items

\* No setter is running and the persist thread has handled every message
\* sent to it.
Handled ==
  /\ app.config.main = "idle"
  /\ app.config.msgs = 0
  /\ app.config.pc = "recv"

C39_DropWithUnsaved ==
  /\ app.config.main = "join"
  /\ app.config.changed
  /\ app.config.msgs > 0
  /\ app.config.pc = "recv"

============================================================================
